---------------------------- MODULE Spec2Model ----------------------------
(***************************************************************************)
(* Residential-management backend: the Express route handlers, the         *)
(* authentication middleware and the Prisma tables they read and write.    *)
(* A table is a function from the ids present to the stored row; the gate  *)
(* log is a sequence in createdAt order.  Every request writes the         *)
(* response it got to resp and the request itself to req.                  *)
(***************************************************************************)
EXTENDS Integers, Sequences, FiniteSets, TLC

VARIABLES
    admins,       \* prisma.admin: id -> [status, password]
    residents,    \* prisma.resident: id -> [email, apartment, password, status, approvalStatus]
    providers,    \* prisma.serviceProvider: id -> [email, username, password, status]
    employees,    \* prisma.employee: id -> [employeeId, email, status]
    gateEntries,  \* prisma.gateEntry, in createdAt order
    bills,        \* prisma.maintenanceBill: id -> [residentId, month, year, status, paidDate]
    guests,       \* prisma.guest: id -> [residentId, status]
    userComplaints, \* prisma.userComplaint: id -> [residentId]
    nextId,       \* ids handed out so far, per table (ObjectIds are never reused)
    tokens,       \* JWT payloads signed by generateToken so far
    req,          \* the request handled last
    resp,         \* the response to it
    regs,         \* resident registrations taken in: request -> [body, pc, status]
    calls         \* other requests whose handler runs in steps: request -> its locals

vars == <<admins, residents, providers, employees, gateEntries, bills, guests,
          userComplaints, nextId, tokens, req, resp, regs, calls>>

tables == <<admins, residents, providers, employees, gateEntries, bills, guests,
            userComplaints>>

----------------------------------------------------------------------------
(* Bounds of the model *)

MaxEntries == 3      \* gate entries kept in the log
MaxGateLog == 2      \* the same, where entries are also typed in and deleted
MaxResidents == 2    \* resident ids handed out
MaxProviders == 2    \* service provider ids handed out
MaxEmployees == 2    \* employee ids handed out
MaxBills == 1        \* bill ids handed out
MaxTime == 2         \* instants of the clock read by new Date()
MaxRegs == 2         \* registration requests taken in
MaxGuests == 2       \* guest ids handed out
MaxCalls == 2        \* requests being handled at one time
MaxComplaints == 2   \* user complaint ids handed out
MaxRows == 4         \* rows of the bills table, where bills are generated again and again

----------------------------------------------------------------------------
(* Values *)

UNDEF == "undefined"     \* a property the JSON body does not carry
NoId == 0                \* a null / absent ObjectId
BadId == 99              \* a value that is no ObjectId (README's residentId: 1)
DateNaN == 0 - 1         \* Invalid Date: every comparison with it is false
NoDate == "null"         \* a DateTime? column that is null
SomeDate == "date"       \* and one that holds new Date() of some instant

Persons == {"Ann", "Bob"}
Apartments == {"A-101", "B-205"}
Emails == {"john.smith@example.com", "ann@example.com"}
UserTypes == {"admin", "resident", "serviceProvider", "employee"}

NoToken == [kind |-> "none", type |-> "null", id |-> NoId]
BadToken == [kind |-> "bad", type |-> "null", id |-> NoId]
Jwt(type, id) == [kind |-> "jwt", type |-> type, id |-> id]

NoUser == [type |-> "null", id |-> NoId]

----------------------------------------------------------------------------
(* lib/auth.ts *)

\* bcrypt.hash(password, 12): the salt is left out, compare never reads it
hashPassword(password) == [alg |-> "bcrypt", of |-> password]

\* A password column holding the text itself, and a null column
Plain(password) == [alg |-> "plain", of |-> password]
NullPassword == [alg |-> "null", of |-> "null"]

\* bcrypt.compare: true only for a bcrypt hash of that password
comparePassword(password, stored) ==
    stored.alg = "bcrypt" /\ stored.of = password

\* jwt.sign: the payload, remembered as issued
generateToken(type, id) == Jwt(type, id)

\* jwt.verify: throws for a token that is malformed, forged or expired
verifyToken(tok) == tok.kind = "jwt"

----------------------------------------------------------------------------
(* lib/auth.middleware.ts.  A middleware yields the status it answers      *)
(* with, or 0 when it calls next().                                        *)

authenticateToken(tok) ==
    IF tok.kind = "none" THEN 401
    ELSE IF ~verifyToken(tok) THEN 403
    ELSE 0

\* req.user after authenticateToken
UserOf(tok) == IF verifyToken(tok) THEN [type |-> tok.type, id |-> tok.id] ELSE NoUser

verifyUserExists(user) ==
    IF user = NoUser THEN 401
    ELSE CASE user.type = "admin" ->
                \* status is selected and never read
                IF user.id \in DOMAIN admins THEN 0 ELSE 404
           [] user.type = "resident" ->
                IF user.id \notin DOMAIN residents THEN 404
                ELSE IF residents[user.id].status # "Active"
                        \/ residents[user.id].approvalStatus # "APPROVED" THEN 403
                ELSE 0
           [] user.type = "serviceProvider" ->
                IF user.id \notin DOMAIN providers THEN 404
                ELSE IF providers[user.id].status # "ACTIVE" THEN 403
                ELSE 0
           [] user.type = "employee" ->
                IF user.id \notin DOMAIN employees THEN 404
                ELSE IF employees[user.id].status # "ACTIVE" THEN 403
                ELSE 0
           [] OTHER -> 403

authorizeRoles_AnyRole(allowedRoles, user) ==
    IF user = NoUser THEN 401 ELSE 0

authorizeRoles(allowedRoles, user) ==
    IF user = NoUser THEN 401
    ELSE IF user.type \notin allowedRoles THEN 403
    ELSE 0

\* every type let through
requireAdmin_Everyone == UserTypes

requireAdmin == {"admin"}
requireResident == {"resident"}
requireServiceProvider == {"serviceProvider"}
requireEmployee == {"employee"}
requireAdminOrResident == {"admin", "resident"}
requireAdminOrServiceProvider == {"admin", "serviceProvider"}
requireAdminOrEmployee == {"admin", "employee"}

\* [authenticateToken, verifyUserExists]
authenticateAndVerify(tok) ==
    IF authenticateToken(tok) # 0 THEN authenticateToken(tok)
    ELSE verifyUserExists(UserOf(tok))

\* authenticateAndVerify followed by a role middleware
authWithRole(tok, allowedRoles) ==
    IF authenticateAndVerify(tok) # 0 THEN authenticateAndVerify(tok)
    ELSE authorizeRoles(allowedRoles, UserOf(tok))

\* Bearer tokens a request can carry: none, one that does not verify, one
\* this server signed, or one signed with the same secret for a user type
\* that has no login route here (employee) or that is unknown
ForeignTokens == {Jwt("employee", 1), Jwt("visitor", 1)}
Bearers == {NoToken, BadToken} \cup tokens \cup ForeignTokens

\* A body without a pagination property
NoPagination == [page |-> UNDEF, limit |-> UNDEF, total |-> UNDEF, pages |-> UNDEF]

\* A body without a password property
NoPassword == [alg |-> "none", of |-> "undefined"]

\* owners: the residentId of every bill or guest the body holds; password:
\* the password property of the resident or service provider in the body
Response(route, status) ==
    [route |-> route, status |-> status, ran |-> TRUE, token |-> NoToken, value |-> "null",
     owners |-> {}, password |-> NoPassword, pagination |-> NoPagination]

\* A response sent by a middleware: the handler never ran
Rejected(route, status) ==
    [route |-> route, status |-> status, ran |-> FALSE, token |-> NoToken, value |-> "null",
     owners |-> {}, password |-> NoPassword, pagination |-> NoPagination]

\* The password property of an object built from the named properties of a
\* row, by a select or by an object literal
pick(row, properties) ==
    IF "password" \in properties THEN row.password ELSE NoPassword

\* the user and resident objects of the responses of routes/auth.ts
residentLoginUser ==
    {"id", "name", "email", "apartment", "type", "status", "approvalStatus"}
residentRegistered == {"id", "name", "email", "apartment", "status", "approvalStatus"}
providerLoginUser ==
    {"id", "name", "email", "username", "type", "status", "serviceCategory"}
providerRegistered == {"id", "name", "email", "username", "status", "serviceCategory"}

\* the select of prisma.serviceProvider.update in PATCH /:id
providerUpdateSelect ==
    {"id", "name", "username", "email", "phone", "serviceCategory", "serviceArea",
     "status", "rating", "totalReviews", "completedJobs", "shortIntro", "experience",
     "availability", "updatedAt"}

\* the select of prisma.resident.update in PATCH /:id/approval
approvalSelect == {"id", "name", "apartment", "email", "status", "approvalStatus"}

\* the password never deleted from the row
profilePassword_Kept(user, row) == row.password

\* GET /:id of residents and of service providers: findUnique with include
\* reads every column; delete (row as any).password for a caller who is no
\* admin
profilePassword(user, row) ==
    IF user.type # "admin" THEN NoPassword ELSE row.password

\* a request whose body the model does not keep
NoBody == [shape |-> UNDEF]

\* origin: the Origin header, "none" for a request that is not cross-origin
Request(route, tok, id) ==
    [route |-> route, tok |-> tok, id |-> id, origin |-> "none", body |-> NoBody]


----------------------------------------------------------------------------
(* routes/gateEntries.ts: the QR code a scan carries.  raw tells whether   *)
(* req.body.qrData is missing, is no JSON ("text"), is the JSON null, or   *)
(* parses to an object; the other fields are the properties of the parsed  *)
(* object, UNDEF when it does not carry them.                              *)

EmptyQr ==
    [raw |-> "json", type |-> UNDEF,
     guestName |-> UNDEF, hostApartment |-> UNDEF, vehicleType |-> UNDEF,
     licensePlate |-> UNDEF, validFrom |-> DateNaN, validUntil |-> DateNaN,
     residentName |-> UNDEF, apartment |-> UNDEF, residentId |-> NoId,
     make |-> UNDEF, model |-> UNDEF, riderName |-> UNDEF, companyName |-> UNDEF,
     providerName |-> UNDEF, employeeName |-> UNDEF, department |-> UNDEF]

Opt(S) == S \cup {UNDEF}
Instants == 1..MaxTime
Dates == Instants \cup {DateNaN}      \* new Date(x) of a date string, or of none

\* Codes as routes/guests.ts, the seed and the README write them, and the
\* same codes with a property missing or changed
GuestQr ==
    [EmptyQr EXCEPT !.type = "guest_entry", !.guestName = "Ann",
                    !.hostApartment = "A-101", !.vehicleType = "Car",
                    !.licensePlate = "ABC-123", !.validFrom = 1, !.validUntil = MaxTime]
GuestQrs ==
    {[GuestQr EXCEPT !.guestName = n, !.hostApartment = a] :
        n \in Opt({"Ann"}), a \in Opt({"A-101"})}
    \cup {[GuestQr EXCEPT !.vehicleType = UNDEF, !.licensePlate = UNDEF]}
    \cup {[GuestQr EXCEPT !.validFrom = f, !.validUntil = u] : f \in Dates, u \in Dates}
ResidentQrs ==
    {[EmptyQr EXCEPT !.type = "resident_entry", !.residentName = n, !.apartment = a,
                     !.residentId = r] :
        n \in Opt(Persons), a \in Opt({"A-101"}), r \in {1, BadId}}
VehicleQrs ==
    {[EmptyQr EXCEPT !.type = "vehicle_entry", !.residentName = n, !.apartment = a,
                     !.residentId = 1, !.make = "Toyota", !.model = "Camry",
                     !.licensePlate = lp] :
        n \in Opt({"Ann"}), a \in Opt({"A-101"}), lp \in {"KHI-123", "KHI-456"}}
DeliveryQrs ==
    {[EmptyQr EXCEPT !.type = "delivery_entry", !.riderName = n, !.apartment = a,
                     !.residentId = 1, !.companyName = c] :
        n \in Opt({"Bob"}), a \in Opt({"A-101"}), c \in Opt({"DHL"})}
ProviderQrs ==
    {[EmptyQr EXCEPT !.type = "service_provider_entry", !.providerName = n] :
        n \in Opt({"Ann"})}
EmployeeQrs ==
    {[EmptyQr EXCEPT !.type = "employee_entry", !.employeeName = n, !.department = d] :
        n \in Opt({"Bob"}), d \in Opt({"SECURITY", "MAINTENANCE"})}
OtherQrs ==
    {[EmptyQr EXCEPT !.raw = "missing"], [EmptyQr EXCEPT !.raw = "text"],
     [EmptyQr EXCEPT !.raw = "null"], EmptyQr, [EmptyQr EXCEPT !.type = "pet_entry"]}

QrCodes == GuestQrs \cup ResidentQrs \cup VehicleQrs \cup DeliveryQrs
              \cup ProviderQrs \cup EmployeeQrs \cup OtherQrs

\* `${a} (${b})` and the like: the pieces in order; a missing property
\* prints as "undefined"
Str(x) == <<x>>
NoFilter == <<>>

\* a < b on Dates: false when either is Invalid Date
DateLt(a, b) == a # DateNaN /\ b # DateNaN /\ a < b

\* a where clause of prisma.gateEntry: a filter whose value is undefined is dropped
Matches(e, where) ==
    /\ (where.person = UNDEF \/ e.person = where.person)
    /\ (where.apartment = UNDEF \/ e.apartment = where.apartment)
    /\ (where.vehicle = NoFilter \/ e.vehicle = where.vehicle)
    /\ (where.entryType = UNDEF \/ e.entryType = where.entryType)

Max(S) == CHOOSE x \in S : \A y \in S : y <= x
Min(S) == CHOOSE x \in S : \A y \in S : x <= y

\* orderBy createdAt asc in its place
findFirstEntry_Oldest(where) ==
    LET found == {i \in 1..Len(gateEntries) : Matches(gateEntries[i], where)}
    IN IF found = {} THEN 0 ELSE Min(found)

\* prisma.gateEntry.findFirst({ where, orderBy: { createdAt: "desc" } }):
\* the index of the entry found, 0 for null
findFirstEntry(where) ==
    LET found == {i \in 1..Len(gateEntries) : Matches(gateEntries[i], where)}
    IN IF found = {} THEN 0 ELSE Max(found)

\* !last || last.type === "EXIT" ? "ENTRY" : "EXIT"
toggle(where) ==
    IF findFirstEntry(where) = 0 \/ gateEntries[findFirstEntry(where)].type = "EXIT"
    THEN "ENTRY" ELSE "EXIT"

\* prisma.resident.findFirst({ where: { apartment } }): the id found, NoId for null
hostResident(apartment) ==
    LET found == {i \in DOMAIN residents :
                     apartment = UNDEF \/ residents[i].apartment = apartment}
    IN IF found = {} THEN NoId ELSE Min(found)

Where(person, apartment, vehicle, entryType) ==
    [person |-> person, apartment |-> apartment, vehicle |-> vehicle,
     entryType |-> entryType]

Entry(type, person, apartment, entryType, vehicle, residentId) ==
    [type |-> type, person |-> person, apartment |-> apartment,
     entryType |-> entryType, vehicle |-> vehicle, gate |-> "Main Gate",
     method |-> "QR Code", residentId |-> residentId]

vehicleDescription(qr) ==
    <<qr.make, " ", qr.model, " (", qr.licensePlate, ")">>

\* the vehicle left out of the lookup
vehicleWhere_NoVehicle(qr) ==
    Where(qr.residentName, qr.apartment, NoFilter, "Resident Vehicle")

\* the where clause of the vehicle_entry lookup
vehicleWhere(qr) ==
    Where(qr.residentName, qr.apartment, vehicleDescription(qr), "Resident Vehicle")

\* the where clauses of the service_provider_entry and employee_entry lookups
providerWhere(qr) == Where(qr.providerName, UNDEF, NoFilter, "Service Provider")
employeeWhere(qr) == Where(qr.employeeName, UNDEF, NoFilter, "Employee")

\* entryData as the switch (type) builds it
entryData(qr) ==
    CASE qr.type = "guest_entry" ->
           Entry(toggle(Where(qr.guestName, qr.hostApartment, NoFilter, "Guest")),
                 qr.guestName, qr.hostApartment, "Guest",
                 IF qr.licensePlate # UNDEF
                 THEN <<qr.vehicleType, " (", qr.licensePlate, ")">>
                 ELSE IF qr.vehicleType # UNDEF THEN Str(qr.vehicleType) ELSE Str("None"),
                 hostResident(qr.hostApartment))
      [] qr.type = "resident_entry" ->
           Entry(toggle(Where(qr.residentName, qr.apartment, NoFilter, "Resident")),
                 qr.residentName, qr.apartment, "Resident", Str("None"), qr.residentId)
      [] qr.type = "vehicle_entry" ->
           Entry(toggle(vehicleWhere(qr)),
                 qr.residentName, qr.apartment, "Resident Vehicle",
                 vehicleDescription(qr), qr.residentId)
      [] qr.type = "delivery_entry" ->
           Entry(toggle(Where(qr.riderName, qr.apartment, NoFilter, "Delivery")),
                 qr.riderName, qr.apartment, "Delivery",
                 IF qr.companyName # UNDEF THEN Str(qr.companyName)
                 ELSE Str("Delivery Vehicle"),
                 qr.residentId)
      [] qr.type = "service_provider_entry" ->
           Entry(toggle(providerWhere(qr)),
                 qr.providerName, "Service Provider", "Service Provider",
                 Str("None"), NoId)
      [] qr.type = "employee_entry" ->
           Entry(toggle(employeeWhere(qr)),
                 qr.employeeName, qr.department, "Employee", Str("None"), NoId)

QrTypes == {"guest_entry", "resident_entry", "vehicle_entry", "delivery_entry",
            "service_provider_entry", "employee_entry"}

\* prisma.gateEntry.create throws on a row the schema does not admit:
\* person and apartment are String, residentId is an optional ObjectId
creatable(e) ==
    e.person # UNDEF /\ e.apartment # UNDEF /\ e.residentId # BadId

\* JSON.parse without its try and catch: the handler's catch answers
qrScanStatus_NoParseCatch(qr, now) ==
    IF qr.raw = "missing" THEN 400
    ELSE IF qr.raw = "text" THEN 500
    ELSE IF qr.raw = "null" THEN 500
    ELSE IF qr.type \notin QrTypes THEN 400
    ELSE IF qr.type = "guest_entry"
            /\ (DateLt(now, qr.validFrom) \/ DateLt(qr.validUntil, now)) THEN 400
    ELSE IF ~creatable(entryData(qr)) THEN 500
    ELSE 201

\* the validity window never looked at
qrScanStatus_NoWindow(qr, now) ==
    IF qr.raw = "missing" THEN 400
    ELSE IF qr.raw = "text" THEN 400
    ELSE IF qr.raw = "null" THEN 500
    ELSE IF qr.type \notin QrTypes THEN 400
    ELSE IF ~creatable(entryData(qr)) THEN 500
    ELSE 201

\* The handler of POST /qr-scan: the status it answers with
qrScanStatus(qr, now) ==
    IF qr.raw = "missing" THEN 400
    ELSE IF qr.raw = "text" THEN 400
    ELSE IF qr.raw = "null" THEN 500     \* JSON.parse("null"): destructuring null throws
    ELSE IF qr.type \notin QrTypes THEN 400
    ELSE IF qr.type = "guest_entry"
            /\ (DateLt(now, qr.validFrom) \/ DateLt(qr.validUntil, now)) THEN 400
    ELSE IF ~creatable(entryData(qr)) THEN 500
    ELSE 201

\* The error property of the body the handler answers with, "null" on 201
qrScanError(qr, now) ==
    IF qr.raw = "missing" THEN "Missing QR data"
    ELSE IF qr.raw = "text" THEN "Invalid QR code"
    ELSE IF qr.raw = "null" THEN "Failed to process QR code"
    ELSE IF qr.type \notin QrTypes THEN "Invalid QR code type"
    ELSE IF qr.type = "guest_entry"
            /\ (DateLt(now, qr.validFrom) \/ DateLt(qr.validUntil, now))
    THEN "QR Code expired"
    ELSE IF ~creatable(entryData(qr)) THEN "Failed to process QR code"
    ELSE "null"

\* POST /api/gate-entries/qr-scan
QrScan(tok, qr, now) ==
    /\ Len(gateEntries) < MaxEntries
    /\ req' = Request("qr-scan", tok, NoId)
    /\ IF authWithRole(tok, requireAdmin) # 0
       THEN /\ resp' = Rejected("qr-scan", authWithRole(tok, requireAdmin))
            /\ UNCHANGED gateEntries
       ELSE IF qrScanStatus(qr, now) # 201
       THEN /\ resp' = [Response("qr-scan", qrScanStatus(qr, now))
                           EXCEPT !.value = qrScanError(qr, now)]
            /\ UNCHANGED gateEntries
       ELSE /\ gateEntries' = Append(gateEntries, entryData(qr))
            /\ resp' = [Response("qr-scan", 201) EXCEPT !.value = entryData(qr).type]
    /\ UNCHANGED <<admins, residents, providers, employees, bills, nextId, tokens, regs,
                 guests, userComplaints, calls>>


\* The same handler with other requests running between its awaits.  calls
\* holds, for each connection, the request being handled on it: what it
\* carries, the clock it read (const now), how far it has come and the
\* entryData it has built.  A connection takes a new request once the one
\* before has been answered.
NoEntry == Entry(UNDEF, UNDEF, UNDEF, UNDEF, NoFilter, NoId)

Free(k) == IF k \in DOMAIN calls THEN calls[k].pc = "done" ELSE TRUE

Put(k, call) == [j \in DOMAIN calls \cup {k} |-> IF j = k THEN call ELSE calls[j]]

\* First step: the middleware, JSON.parse, the validity window of a guest
\* code and the findFirst lookups, from which the type of the entry is
\* decided.  A row that prisma.gateEntry.create refuses is answered 500
\* whenever the create runs, so that answer is given here.
ScanLookup(k, tok, qr, now) ==
    /\ Free(k)
    /\ req' = Request("qr-scan", tok, k)
    /\ IF authWithRole(tok, requireAdmin) # 0
       THEN /\ resp' = Rejected("qr-scan", authWithRole(tok, requireAdmin))
            /\ calls' = Put(k, [tok |-> tok, qr |-> qr, now |-> now, pc |-> "done",
                                status |-> authWithRole(tok, requireAdmin),
                                entry |-> NoEntry])
       ELSE IF qrScanStatus(qr, now) # 201
       THEN /\ resp' = Response("qr-scan", qrScanStatus(qr, now))
            /\ calls' = Put(k, [tok |-> tok, qr |-> qr, now |-> now, pc |-> "done",
                                status |-> qrScanStatus(qr, now), entry |-> NoEntry])
       ELSE /\ resp' = Rejected("qr-scan", 0)
            /\ calls' = Put(k, [tok |-> tok, qr |-> qr, now |-> now, pc |-> "found",
                                status |-> 0, entry |-> entryData(qr)])
    /\ UNCHANGED <<tables, nextId, tokens, regs>>

\* Second step: prisma.gateEntry.create({ data: entryData }) and the answer
ScanCreate(k) ==
    /\ k \in DOMAIN calls
    /\ calls[k].pc = "found"
    /\ req' = Request("qr-scan", calls[k].tok, k)
    /\ gateEntries' = Append(gateEntries, calls[k].entry)
    /\ resp' = [Response("qr-scan", 201) EXCEPT !.value = calls[k].entry.type]
    /\ calls' = [calls EXCEPT ![k].pc = "done", ![k].status = 201]
    /\ UNCHANGED <<admins, residents, providers, employees, bills, guests, userComplaints,
                   nextId, tokens, regs>>

\* GateEntrySchema: the bodies of POST /api/gate-entries
ManualBodies ==
    {[type |-> t, person |-> n, apartment |-> "A-101", entryType |-> et,
      vehicle |-> NoFilter, residentId |-> r] :
        t \in {"ENTRY", "EXIT", "IN"}, n \in Opt({"Ann"}),
        et \in {"Resident", "Resident Vehicle"}, r \in {NoId, 1}}

\* GateEntrySchema.parse and prisma.gateEntry.create both pass: residentId is
\* z.number() in the schema and an ObjectId string in the table, so a body
\* that carries one fails one or the other
manualAccepted(body) ==
    /\ body.type \in {"ENTRY", "EXIT"}
    /\ body.person # UNDEF
    /\ body.residentId = NoId

manualEntry(body) ==
    [type |-> body.type, person |-> body.person, apartment |-> body.apartment,
     entryType |-> body.entryType,
     vehicle |-> IF body.vehicle = NoFilter THEN Str("None") ELSE body.vehicle,
     gate |-> "Main Gate", method |-> "Manual", residentId |-> NoId]

\* POST /api/gate-entries
ManualEntry(tok, body) ==
    /\ Len(gateEntries) < MaxEntries
    /\ req' = Request("gate-create", tok, NoId)
    /\ IF authWithRole(tok, requireAdmin) # 0
       THEN /\ resp' = Rejected("gate-create", authWithRole(tok, requireAdmin))
            /\ UNCHANGED gateEntries
       ELSE IF ~manualAccepted(body)
       THEN /\ resp' = Response("gate-create", 400)
            /\ UNCHANGED gateEntries
       ELSE /\ gateEntries' = Append(gateEntries, manualEntry(body))
            /\ resp' = Response("gate-create", 201)
    /\ UNCHANGED <<admins, residents, providers, employees, bills, nextId, tokens, regs,
                 guests, userComplaints, calls>>

Remove(seq, i) == [j \in 1..(Len(seq) - 1) |-> IF j < i THEN seq[j] ELSE seq[j + 1]]

\* DELETE /api/gate-entries/:id, an entry being named by its place in the log
DeleteEntry(tok, id) ==
    /\ req' = Request("gate-delete", tok, id)
    /\ IF authWithRole(tok, requireAdmin) # 0
       THEN /\ resp' = Rejected("gate-delete", authWithRole(tok, requireAdmin))
            /\ UNCHANGED gateEntries
       ELSE IF id \notin 1..Len(gateEntries)
       THEN /\ resp' = Response("gate-delete", 404)
            /\ UNCHANGED gateEntries
       ELSE /\ gateEntries' = Remove(gateEntries, id)
            /\ resp' = Response("gate-delete", 200)
    /\ UNCHANGED <<admins, residents, providers, employees, bills, nextId, tokens, regs,
                 guests, userComplaints, calls>>

\* A handler that only reads: GET /api/gate-entries, GET /api/gate-entries/stats/today,
\* GET /api/employees
AdminRead(route, tok) ==
    /\ req' = Request(route, tok, NoId)
    /\ resp' = IF authWithRole(tok, requireAdmin) # 0
               THEN Rejected(route, authWithRole(tok, requireAdmin))
               ELSE Response(route, 200)
    /\ UNCHANGED <<tables, nextId, tokens, regs, calls>>

----------------------------------------------------------------------------
(* The database after prisma/seed.ts, of which the model keeps the admin,  *)
(* the first resident, the first service provider and the two employees.   *)

seedAdmin == [status |-> TRUE, password |-> hashPassword("admin123")]

seedResident ==
    [email |-> "john.smith@example.com", apartment |-> "A-101",
     password |-> hashPassword("resident123"),
     status |-> "ACTIVE", approvalStatus |-> "APPROVED"]

seedProvider ==
    [email |-> "ahmad.plumber@example.com", username |-> "ahmadplumber",
     password |-> hashPassword("provider123"), status |-> "ACTIVE"]

seedEmployees ==
    (1 :> [employeeId |-> <<0, 0, 1>>, email |-> "security1@residentialapp.com",
           status |-> "ACTIVE"])
    @@ (2 :> [employeeId |-> <<0, 0, 2>>, email |-> "maintenance1@residentialapp.com",
              status |-> "ACTIVE"])

Empty == [i \in {} |-> NoId]

NoRequest == Request("none", NoToken, NoId)
NoResponse == Rejected("none", 0)

\* The gate: a seeded database whose log has been emptied, the admin and the
\* first service provider logged in
InitGate ==
    /\ admins = (1 :> seedAdmin)
    /\ residents = (1 :> seedResident)
    /\ providers = (1 :> seedProvider)
    /\ employees = seedEmployees
    /\ gateEntries = <<>>
    /\ bills = Empty
    /\ guests = Empty
    /\ userComplaints = Empty
    /\ nextId = [admin |-> 1, resident |-> 1, provider |-> 1, employee |-> 2, bill |-> 0,
                 guest |-> 0, complaint |-> 0]
    /\ tokens = {generateToken("admin", 1), generateToken("serviceProvider", 1)}
    /\ req = NoRequest
    /\ resp = NoResponse
    /\ regs = Empty
    /\ calls = Empty

\* What a request carries for a bearer token: a request the middleware
\* rejects has a body nobody reads, and only a guest code reads the clock
ScanCodes(tok) == IF authWithRole(tok, requireAdmin) = 0 THEN QrCodes ELSE {EmptyQr}
ScanTimes(qr) == IF qr.type = "guest_entry" THEN Instants ELSE {1}
Bodies(tok, S) ==
    IF authWithRole(tok, requireAdmin) = 0 THEN S ELSE {CHOOSE b \in S : TRUE}

NextScan ==
    \E tok \in Bearers : \E qr \in ScanCodes(tok) : \E now \in ScanTimes(qr) :
        QrScan(tok, qr, now)

NextGate ==
    \/ /\ Len(gateEntries) < MaxGateLog
       /\ \E tok \in Bearers : \E qr \in ScanCodes(tok) : \E now \in ScanTimes(qr) :
             QrScan(tok, qr, now)
    \/ /\ Len(gateEntries) < MaxGateLog
       /\ \E tok \in Bearers : \E body \in Bodies(tok, ManualBodies) :
             ManualEntry(tok, body)
    \/ \E tok \in Bearers : \E id \in Bodies(tok, 1..MaxEntries + 1) : DeleteEntry(tok, id)

\* QR scans only, one at a time
SpecScan == InitGate /\ [][NextScan]_vars

\* QR scans, manual entries and deletions, one at a time
SpecGate == InitGate /\ [][NextGate]_vars


\* Guest codes with every validity window, scanned by the admin at every
\* instant, one scan at a time on one connection
WindowCodes ==
    {[GuestQr EXCEPT !.guestName = n, !.validFrom = f, !.validUntil = u] :
        n \in Opt({"Ann"}), f \in Dates, u \in Dates}

NextWindow ==
    \/ /\ Len(gateEntries) < MaxEntries
       /\ \E tok \in Bearers :
             \E qr \in Bodies(tok, WindowCodes) : \E now \in Bodies(tok, Instants) :
                   ScanLookup(1, tok, qr, now)
    \/ ScanCreate(1)

SpecWindow == InitGate /\ [][NextWindow]_vars

\* Scans of two residents' codes on connections that run side by side
RaceCodes ==
    {[EmptyQr EXCEPT !.type = "resident_entry", !.residentName = n,
                     !.apartment = "A-101", !.residentId = 1] : n \in Persons}

NextRace ==
    \/ /\ Len(gateEntries) + Cardinality({k \in DOMAIN calls : calls[k].pc = "found"})
             < MaxEntries
       /\ \E k \in 1..MaxCalls : \E qr \in RaceCodes :
             ScanLookup(k, Jwt("admin", 1), qr, 1)
    \/ \E k \in DOMAIN calls : ScanCreate(k)

SpecRace == InitGate /\ [][NextRace]_vars

----------------------------------------------------------------------------
(* routes/auth.ts *)

Usernames == {"ahmadplumber", "bobfix"}
ProviderEmails == {"ahmad.plumber@example.com", "bob@example.com"}

\* Bodies of POST /resident/register: shape tells whether
\* ResidentRegistrationSchema.parse passes
RegisterBodies ==
    {[shape |-> sh, email |-> e, apartment |-> a, password |-> pw] :
        sh \in {"valid", "invalid"}, e \in Emails, a \in Apartments,
        pw \in Opt({"secret99"})}

residentTaken(body) ==
    \E i \in DOMAIN residents :
        residents[i].email = body.email \/ residents[i].apartment = body.apartment

\* the row prisma.resident.create writes
newResident(body) ==
    [email |-> body.email, apartment |-> body.apartment,
     password |-> IF body.password # UNDEF THEN hashPassword(body.password)
                  ELSE NullPassword,
     status |-> "Pending", approvalStatus |-> "PENDING"]

\* no unique index
residentUnique_NoIndex(row) == TRUE

\* The unique indexes of model Resident: email and apartment
residentUnique(row) ==
    \A i \in DOMAIN residents :
        residents[i].email # row.email /\ residents[i].apartment # row.apartment

\* POST /api/auth/resident/register
ResidentRegister(body) ==
    /\ nextId.resident < MaxResidents
    /\ req' = Request("resident-register", NoToken, NoId)
    /\ IF body.shape # "valid" \/ residentTaken(body)
       THEN /\ resp' = Response("resident-register", 400)
            /\ UNCHANGED <<residents, nextId>>
       ELSE /\ residents' = residents @@ ((nextId.resident + 1) :> newResident(body))
            /\ nextId' = [nextId EXCEPT !.resident = @ + 1]
            /\ resp' = [Response("resident-register", 201) EXCEPT
                           !.password = pick(newResident(body), residentRegistered)]
    /\ UNCHANGED <<admins, providers, employees, gateEntries, bills, tokens, regs, guests,
                 userComplaints, calls>>

\* The same handler with other requests running between its awaits: regs
\* holds the requests taken in, each with its body and how far it has come.
\* First step: the schema and the findFirst on email and apartment.
RegisterCheck(body) ==
    /\ Cardinality(DOMAIN regs) < MaxRegs
    /\ req' = Request("resident-register", NoToken, Cardinality(DOMAIN regs) + 1)
    /\ IF body.shape # "valid" \/ residentTaken(body)
       THEN /\ resp' = Response("resident-register", 400)
            /\ regs' = regs @@ ((Cardinality(DOMAIN regs) + 1) :>
                                   [body |-> body, pc |-> "done", status |-> 400])
       ELSE /\ resp' = Rejected("resident-register", 0)
            /\ regs' = regs @@ ((Cardinality(DOMAIN regs) + 1) :>
                                   [body |-> body, pc |-> "checked", status |-> 0])
    /\ UNCHANGED <<tables, nextId, tokens, calls>>

\* Second step: hashPassword and prisma.resident.create, which throws into
\* the catch when a unique index is violated
RegisterCreate(k) ==
    /\ k \in DOMAIN regs
    /\ regs[k].pc = "checked"
    /\ req' = Request("resident-register", NoToken, k)
    /\ IF ~residentUnique(newResident(regs[k].body))
       THEN /\ resp' = Response("resident-register", 400)
            /\ regs' = [regs EXCEPT ![k].pc = "done", ![k].status = 400]
            /\ UNCHANGED <<residents, nextId>>
       ELSE /\ residents' = residents @@
                  ((nextId.resident + 1) :> newResident(regs[k].body))
            /\ nextId' = [nextId EXCEPT !.resident = @ + 1]
            /\ resp' = [Response("resident-register", 201) EXCEPT
                           !.password = pick(newResident(regs[k].body), residentRegistered)]
            /\ regs' = [regs EXCEPT ![k].pc = "done", ![k].status = 201]
    /\ UNCHANGED <<admins, providers, employees, gateEntries, bills, tokens, guests,
                 userComplaints, calls>>

\* prisma.resident.findUnique({ where: { email } }): the id found, NoId for null
residentByEmail(email) ==
    IF \E i \in DOMAIN residents : residents[i].email = email
    THEN CHOOSE i \in DOMAIN residents : residents[i].email = email
    ELSE NoId

\* the status POST /resident/login answers with
residentLoginStatus(email, password) ==
    LET id == residentByEmail(email)
    IN IF password = UNDEF THEN 400          \* LoginSchema.parse throws
       ELSE IF id = NoId \/ residents[id].password = NullPassword
               \/ ~comparePassword(password, residents[id].password) THEN 401
       ELSE IF residents[id].status # "Active" THEN 403
       ELSE IF residents[id].approvalStatus # "APPROVED" THEN 403
       ELSE 200

\* POST /api/auth/resident/login
ResidentLogin(email, password) ==
    /\ req' = Request("resident-login", NoToken, residentByEmail(email))
    /\ IF residentLoginStatus(email, password) # 200
       THEN /\ resp' = Response("resident-login", residentLoginStatus(email, password))
            /\ UNCHANGED tokens
       ELSE /\ tokens' = tokens \cup {generateToken("resident", residentByEmail(email))}
            /\ resp' = [Response("resident-login", 200) EXCEPT
                           !.token = generateToken("resident", residentByEmail(email)),
                           !.password = pick(residents[residentByEmail(email)],
                                             residentLoginUser)]
    /\ UNCHANGED <<tables, nextId, regs, calls>>

providerByEmail(email) ==
    IF \E i \in DOMAIN providers : providers[i].email = email
    THEN CHOOSE i \in DOMAIN providers : providers[i].email = email
    ELSE NoId

\* the status POST /service-provider/login answers with
providerLoginStatus(email, password) ==
    LET id == providerByEmail(email)
    IN IF password = UNDEF THEN 400
       ELSE IF id = NoId \/ ~comparePassword(password, providers[id].password) THEN 401
       ELSE IF providers[id].status # "ACTIVE" THEN 403
       ELSE 200

\* POST /api/auth/service-provider/login
ProviderLogin(email, password) ==
    /\ req' = Request("provider-login", NoToken, providerByEmail(email))
    /\ IF providerLoginStatus(email, password) # 200
       THEN /\ resp' = Response("provider-login", providerLoginStatus(email, password))
            /\ UNCHANGED tokens
       ELSE /\ tokens' = tokens \cup {generateToken("serviceProvider", providerByEmail(email))}
            /\ resp' = [Response("provider-login", 200) EXCEPT
                           !.token = generateToken("serviceProvider", providerByEmail(email)),
                           !.password = pick(providers[providerByEmail(email)],
                                             providerLoginUser)]
    /\ UNCHANGED <<tables, nextId, regs, calls>>

\* POST /api/auth/admin/login; the only username in the table is "admin"
AdminLogin(username, password) ==
    /\ req' = Request("admin-login", NoToken, NoId)
    /\ IF password = UNDEF
       THEN resp' = Response("admin-login", 400) /\ UNCHANGED tokens
       ELSE IF username # "admin" \/ admins = Empty
               \/ ~comparePassword(password, admins[Min(DOMAIN admins)].password)
       THEN resp' = Response("admin-login", 401) /\ UNCHANGED tokens
       ELSE /\ tokens' = tokens \cup {generateToken("admin", Min(DOMAIN admins))}
            /\ resp' = [Response("admin-login", 200) EXCEPT
                           !.token = generateToken("admin", Min(DOMAIN admins))]
    /\ UNCHANGED <<tables, nextId, regs, calls>>

\* Bodies of POST /service-provider/register: shape "invalid" fails
\* ServiceProviderRegistrationSchema, "partial" passes it and leaves out
\* previousWork, certifications or additionalNotes, which the table requires
ProviderBodies ==
    {[shape |-> sh, email |-> e, username |-> u, password |-> pw] :
        sh \in {"valid", "partial", "invalid"}, e \in ProviderEmails, u \in Usernames,
        pw \in {"secret99"}}

providerTaken(body) ==
    \E i \in DOMAIN providers :
        providers[i].email = body.email \/ providers[i].username = body.username

newProvider(body) ==
    [email |-> body.email, username |-> body.username,
     password |-> hashPassword(body.password), status |-> "PENDING"]

\* POST /api/auth/service-provider/register
ProviderRegister(body) ==
    /\ nextId.provider < MaxProviders
    /\ req' = Request("provider-register", NoToken, NoId)
    /\ IF body.shape = "invalid" \/ providerTaken(body) \/ body.shape = "partial"
       THEN /\ resp' = Response("provider-register", 400)
            /\ UNCHANGED <<providers, nextId>>
       ELSE /\ providers' = providers @@ ((nextId.provider + 1) :> newProvider(body))
            /\ nextId' = [nextId EXCEPT !.provider = @ + 1]
            /\ resp' = [Response("provider-register", 201) EXCEPT
                           !.password = pick(newProvider(body), providerRegistered)]
    /\ UNCHANGED <<admins, residents, employees, gateEntries, bills, tokens, regs, guests,
                 userComplaints, calls>>

----------------------------------------------------------------------------
(* routes/residents.ts *)

\* a table without the row of one id
Without(table, id) == [i \in DOMAIN table \ {id} |-> table[i]]

\* prisma.<type>.findUnique({ where: { id } }) of GET /me: whether a row is
\* found; a type the switch has no case for leaves user null
meFound(user) ==
    CASE user.type = "admin" -> user.id \in DOMAIN admins
      [] user.type = "resident" -> user.id \in DOMAIN residents
      [] user.type = "serviceProvider" -> user.id \in DOMAIN providers
      [] user.type = "employee" -> user.id \in DOMAIN employees
      [] OTHER -> FALSE

\* GET /api/auth/me, behind authenticateToken alone
Me(tok) ==
    /\ req' = Request("me", tok, NoId)
    /\ resp' = IF authenticateToken(tok) # 0
               THEN Rejected("me", authenticateToken(tok))
               ELSE IF ~meFound(UserOf(tok)) THEN Response("me", 404)
               ELSE Response("me", 200)
    /\ UNCHANGED <<tables, nextId, tokens, regs, calls>>

\* POST /api/auth/refresh, behind authenticateToken alone: a token is
\* signed for the id and type of the one presented; no table is read
Refresh(tok) ==
    /\ req' = Request("refresh", tok, NoId)
    /\ IF authenticateToken(tok) # 0
       THEN /\ resp' = Rejected("refresh", authenticateToken(tok))
            /\ UNCHANGED tokens
       ELSE /\ tokens' = tokens \cup {generateToken(tok.type, tok.id)}
            /\ resp' = [Response("refresh", 200) EXCEPT
                           !.token = generateToken(tok.type, tok.id)]
    /\ UNCHANGED <<tables, nextId, regs, calls>>

\* GET /api/residents/:id
GetResident(tok, id) ==
    /\ req' = Request("resident-get", tok, id)
    /\ resp' = IF authWithRole(tok, requireAdminOrResident) # 0
               THEN Rejected("resident-get", authWithRole(tok, requireAdminOrResident))
               ELSE IF tok.type = "resident" /\ tok.id # id
               THEN Response("resident-get", 403)
               ELSE IF id \notin DOMAIN residents
               THEN Response("resident-get", 404)
               ELSE [Response("resident-get", 200) EXCEPT
                        !.password = profilePassword(UserOf(tok), residents[id])]
    /\ UNCHANGED <<tables, nextId, tokens, regs, calls>>

\* PATCH /api/residents/:id.  No middleware is mounted on the route, so
\* req.user is undefined and reading req.user!.type throws once the body has
\* parsed: the catch answers 400 either way
ResidentUpdate(tok, id, body) ==
    /\ req' = [Request("resident-update", tok, id) EXCEPT !.body = body]
    /\ resp' = Response("resident-update", 400)
    /\ UNCHANGED <<tables, nextId, tokens, regs, calls>>

\* Bodies of PATCH /:id: ResidentUpdateSchema is the registration schema
\* with every property optional
ProfileBodies ==
    {[shape |-> sh, email |-> e, apartment |-> a] :
        sh \in {"valid", "invalid"},
        e \in Opt({"john.smith@example.com", "sarah.johnson@example.com",
                   "new@example.com"}),
        a \in Opt({"B-205"})}

ApprovalStatuses == {"APPROVED", "REJECTED", "PENDING", UNDEF}

\* status made Active whatever the decision
approved_AlwaysActive(row, approvalStatus) ==
    [row EXCEPT !.approvalStatus = approvalStatus, !.status = "Active"]

approved_StatusKept(row, approvalStatus) ==
    [row EXCEPT !.approvalStatus = approvalStatus]

\* the row prisma.resident.update writes in the approval handler
approved(row, approvalStatus) ==
    [row EXCEPT !.approvalStatus = approvalStatus,
                !.status = IF approvalStatus = "APPROVED" THEN "Active" ELSE "Rejected"]

\* status of the body of an approval request, UNDEF when it has none
BodyStatuses == Opt({"Active", "Rejected"})

\* PATCH /api/residents/:id/approval; the route mounts no middleware, the
\* Authorization header is never read; status is taken off the body and
\* never used
ResidentApproval(tok, id, approvalStatus, status) ==
    /\ req' = Request("resident-approval", tok, id)
    /\ IF approvalStatus \notin {"APPROVED", "REJECTED"}
       THEN /\ resp' = Response("resident-approval", 400)
            /\ UNCHANGED residents
       ELSE IF id \notin DOMAIN residents
       THEN /\ resp' = Response("resident-approval", 500)
            /\ UNCHANGED residents
       ELSE /\ residents' = [residents EXCEPT ![id] = approved(@, approvalStatus)]
            /\ resp' = [Response("resident-approval", 200) EXCEPT
                           !.password = pick(approved(residents[id], approvalStatus),
                                             approvalSelect)]
    /\ UNCHANGED <<admins, providers, employees, gateEntries, bills, nextId, tokens, regs,
                 guests, userComplaints, calls>>

\* the rows of a table that are not of one resident
NotOf(table, id) == [b \in {i \in DOMAIN table : table[i].residentId # id} |-> table[b]]

\* DELETE /api/residents/:id; the relations of the schema delete the
\* resident's bills and guests (onDelete: Cascade) and clear the residentId
\* of the gate entries (onDelete: SetNull); model UserComplaint has no relation
ResidentDelete(tok, id) ==
    /\ req' = Request("resident-delete", tok, id)
    /\ IF authWithRole(tok, requireAdmin) # 0
       THEN /\ resp' = Rejected("resident-delete", authWithRole(tok, requireAdmin))
            /\ UNCHANGED <<residents, bills, guests, gateEntries>>
       ELSE IF id \notin DOMAIN residents
       THEN /\ resp' = Response("resident-delete", 404)
            /\ UNCHANGED <<residents, bills, guests, gateEntries>>
       ELSE /\ residents' = Without(residents, id)
            /\ bills' = NotOf(bills, id)
            /\ guests' = NotOf(guests, id)
            /\ gateEntries' = [n \in 1..Len(gateEntries) |->
                                  IF gateEntries[n].residentId = id
                                  THEN [gateEntries[n] EXCEPT !.residentId = NoId]
                                  ELSE gateEntries[n]]
            /\ resp' = Response("resident-delete", 200)
    /\ UNCHANGED <<admins, providers, employees, nextId, tokens, regs, userComplaints, calls>>

\* req.user.id as an ObjectId: no two documents share one, whatever their
\* collections; a resident's is kept as its number, an admin's moved apart
ObjectIdOf(user) == IF user.type = "resident" THEN user.id ELSE 100 + user.id

\* POST /api/residents/complaints, the first of the two handlers mounted on
\* the path; given tells whether title, category and description are there
ComplaintCreate(tok, given) ==
    /\ req' = Request("complaint-create", tok, NoId)
    /\ IF authWithRole(tok, requireAdminOrResident) # 0
       THEN /\ resp' = Rejected("complaint-create",
                                authWithRole(tok, requireAdminOrResident))
            /\ UNCHANGED <<userComplaints, nextId>>
       ELSE IF ~given
       THEN /\ resp' = Response("complaint-create", 400)
            /\ UNCHANGED <<userComplaints, nextId>>
       ELSE /\ userComplaints' = userComplaints @@
                  ((nextId.complaint + 1) :> [residentId |-> ObjectIdOf(UserOf(tok))])
            /\ nextId' = [nextId EXCEPT !.complaint = @ + 1]
            /\ resp' = Response("complaint-create", 201)
    /\ UNCHANGED <<admins, residents, providers, employees, gateEntries, bills, guests,
                   tokens, regs, calls>>

\* page and limit of a query string: the set of the number Number() makes
\* of it, empty when the query has none
DefaultLimit == 10
LimitOfSchema == 100
PageQueries == {{}, {0}, {1}, {2}}
LimitQueries == {{}, {0}, {1}, {2}, {LimitOfSchema}, {LimitOfSchema + 1}}
Queries == {[page |-> pg, limit |-> l] : pg \in PageQueries, l \in LimitQueries}

\* a property of the query, or the default when the query has none
OrDefault(given, default) == IF given = {} THEN default ELSE CHOOSE n \in given : TRUE

\* PaginationSchema.parse(req.query): whether it passes; search, status and
\* the like are not given
PaginationSchema(query) ==
    /\ \A n \in query.page : n > 0
    /\ \A n \in query.limit : n > 0 /\ n <= LimitOfSchema

\* Math.ceil(total / limit); a division by 0 gives Infinity or NaN, which
\* JSON writes as null, kept as -1
ceil(total, limit) ==
    IF limit = 0 THEN -1 ELSE (total + limit - 1) \div limit

\* the pagination object of a list response
pagination(page, limit, total) ==
    [page |-> page, limit |-> limit, total |-> total, pages |-> ceil(total, limit)]

\* GET /api/residents, the first handler mounted on the path; a query the
\* schema refuses throws into the catch, which answers 500
ResidentList(tok, query) ==
    /\ req' = [Request("resident-list", tok, NoId) EXCEPT !.body = query]
    /\ resp' =
          IF authWithRole(tok, requireAdmin) # 0
          THEN Rejected("resident-list", authWithRole(tok, requireAdmin))
          ELSE IF ~PaginationSchema(query)
          THEN Response("resident-list", 500)
          ELSE LET page == OrDefault(query.page, 1)
                   limit == OrDefault(query.limit, DefaultLimit)
               IN [Response("resident-list", 200) EXCEPT
                      !.pagination = pagination(page, limit, Cardinality(DOMAIN residents))]
    /\ UNCHANGED <<tables, nextId, tokens, regs, calls>>

\* GET /api/residents/complaints/all reads page and limit off req.query
\* itself; findMany throws on a skip below 0, a take of 0 finds nothing
complaintQueryRefused(query) ==
    LET page == OrDefault(query.page, 1)
        limit == OrDefault(query.limit, DefaultLimit)
    IN (page - 1) * limit < 0

\* GET /api/residents/complaints/all
ComplaintList(tok, query) ==
    /\ req' = [Request("complaint-list", tok, NoId) EXCEPT !.body = query]
    /\ resp' =
          IF authWithRole(tok, requireAdminOrResident) # 0
          THEN Rejected("complaint-list", authWithRole(tok, requireAdminOrResident))
          ELSE IF complaintQueryRefused(query)
          THEN Response("complaint-list", 500)
          ELSE LET page == OrDefault(query.page, 1)
                   limit == OrDefault(query.limit, DefaultLimit)
               IN [Response("complaint-list", 200) EXCEPT
                      !.pagination =
                          pagination(page, limit, Cardinality(DOMAIN userComplaints))]
    /\ UNCHANGED <<tables, nextId, tokens, regs, calls>>

----------------------------------------------------------------------------
(* routes/serviceProviders.ts *)

\* Bodies of PATCH /:id that ServiceProviderUpdateSchema accepts: every
\* property is optional
UpdateBodies ==
    {[email |-> e, username |-> UNDEF, password |-> pw] :
        e \in Opt({"bob@example.com"}), pw \in Opt({"secret99"})}

providerDuplicate(id, body) ==
    \E i \in DOMAIN providers \ {id} :
        \/ body.email # UNDEF /\ providers[i].email = body.email
        \/ body.username # UNDEF /\ providers[i].username = body.username

\* the row prisma.serviceProvider.update({ data: validatedData }) leaves
updated(row, body) ==
    [row EXCEPT
        !.email = IF body.email # UNDEF THEN body.email ELSE @,
        !.username = IF body.username # UNDEF THEN body.username ELSE @,
        !.password = IF body.password # UNDEF THEN Plain(body.password) ELSE @]

\* PATCH /api/service-providers/:id
ProviderUpdate(tok, id, body) ==
    /\ req' = Request("provider-update", tok, id)
    /\ IF authWithRole(tok, requireAdminOrServiceProvider) # 0
       THEN /\ resp' = Rejected("provider-update",
                                authWithRole(tok, requireAdminOrServiceProvider))
            /\ UNCHANGED providers
       ELSE IF tok.type = "serviceProvider" /\ tok.id # id
       THEN /\ resp' = Response("provider-update", 403)
            /\ UNCHANGED providers
       ELSE IF id \notin DOMAIN providers
       THEN /\ resp' = Response("provider-update", 404)
            /\ UNCHANGED providers
       ELSE IF providerDuplicate(id, body)
       THEN /\ resp' = Response("provider-update", 400)
            /\ UNCHANGED providers
       ELSE /\ providers' = [providers EXCEPT ![id] = updated(@, body)]
            /\ resp' = [Response("provider-update", 200) EXCEPT
                           !.password = pick(updated(providers[id], body),
                                             providerUpdateSelect)]
    /\ UNCHANGED <<admins, residents, employees, gateEntries, bills, nextId, tokens, regs,
                 guests, userComplaints, calls>>

\* GET /api/service-providers/:id: authenticateAndVerify and no role middleware
GetProvider(tok, id) ==
    /\ req' = Request("provider-get", tok, id)
    /\ resp' = IF authenticateAndVerify(tok) # 0
               THEN Rejected("provider-get", authenticateAndVerify(tok))
               ELSE IF tok.type = "serviceProvider" /\ tok.id # id
               THEN Response("provider-get", 403)
               ELSE IF id \notin DOMAIN providers
               THEN Response("provider-get", 404)
               ELSE [Response("provider-get", 200) EXCEPT
                        !.password = profilePassword(UserOf(tok), providers[id])]
    /\ UNCHANGED <<tables, nextId, tokens, regs, calls>>

----------------------------------------------------------------------------
(* routes/employees.ts.  employeeId "EMP001" is kept as <<0, 0, 1>>, the   *)
(* characters after EMP, which every employeeId starts with                *)

EmployeeEmails == {"security1@residentialapp.com", "guard2@residentialapp.com"}

\* Emails of further employees
MoreEmails == EmployeeEmails \cup {"guard3@residentialapp.com", "guard4@residentialapp.com"}

\* Number.prototype.toString of a number that is not negative
RECURSIVE toString(_)
toString(n) == IF n < 10 THEN <<n>> ELSE toString(n \div 10) \o <<n % 10>>

\* String.prototype.padStart(len, "0")
RECURSIVE padStart(_, _)
padStart(s, len) == IF Len(s) >= len THEN s ELSE padStart(<<0>> \o s, len)

\* parseInt of a string of digits
RECURSIVE parseInt(_)
parseInt(s) ==
    IF Len(s) = 0 THEN 0 ELSE 10 * parseInt(SubSeq(s, 1, Len(s) - 1)) + s[Len(s)]

\* The order of the database on strings: character by character, a proper
\* prefix first
StringLess(s, t) ==
    \/ \E k \in 1..Min({Len(s), Len(t)}) :
          /\ \A j \in 1..(k - 1) : s[j] = t[j]
          /\ s[k] < t[k]
    \/ /\ Len(s) < Len(t)
       /\ \A j \in 1..Len(s) : s[j] = t[j]

\* prisma.employee.findFirst({ orderBy: { employeeId: "desc" } })
lastEmployee ==
    CHOOSE i \in DOMAIN employees :
        \A j \in DOMAIN employees :
            ~StringLess(employees[i].employeeId, employees[j].employeeId)

\* Bodies of POST / and PATCH /:id: shape tells whether the schema accepts
EmployeeBodies ==
    {[shape |-> "valid", email |-> e] : e \in EmployeeEmails}
    \cup {[shape |-> "invalid", email |-> "guard2@residentialapp.com"]}

\* let employeeIdNumber: 1, or parseInt of the last employee's id and + 1
employeeIdNumber ==
    IF employees = Empty THEN 1
    ELSE parseInt(employees[lastEmployee].employeeId) + 1

\* const employeeId, without its EMP
nextEmployeeId == padStart(toString(employeeIdNumber), 3)

\* POST /api/employees; prisma.employee.create throws on the unique index of
\* employeeId, which the catch answers with 400
EmployeeCreate(tok, body) ==
    /\ req' = [Request("employee-create", tok, NoId) EXCEPT !.body = body]
    /\ IF authWithRole(tok, requireAdmin) # 0
       THEN /\ resp' = Rejected("employee-create", authWithRole(tok, requireAdmin))
            /\ UNCHANGED <<employees, nextId>>
       ELSE IF body.shape # "valid"
               \/ (\E i \in DOMAIN employees : employees[i].email = body.email)
               \/ (\E j \in DOMAIN employees : employees[j].employeeId = nextEmployeeId)
       THEN /\ resp' = Response("employee-create", 400)
            /\ UNCHANGED <<employees, nextId>>
       ELSE /\ employees' = employees @@
                  ((nextId.employee + 1) :>
                      [employeeId |-> nextEmployeeId, email |-> body.email,
                       status |-> "ACTIVE"])
            /\ nextId' = [nextId EXCEPT !.employee = @ + 1]
            /\ resp' = Response("employee-create", 201)
    /\ UNCHANGED <<admins, residents, providers, gateEntries, bills, tokens, regs, guests,
                 userComplaints, calls>>

\* PATCH /api/employees/:id
EmployeeUpdate(tok, id, body) ==
    /\ req' = Request("employee-update", tok, id)
    /\ IF authWithRole(tok, requireAdmin) # 0
       THEN /\ resp' = Rejected("employee-update", authWithRole(tok, requireAdmin))
            /\ UNCHANGED employees
       ELSE IF body.shape # "valid"
       THEN /\ resp' = Response("employee-update", 400)
            /\ UNCHANGED employees
       ELSE IF id \notin DOMAIN employees
       THEN /\ resp' = Response("employee-update", 404)
            /\ UNCHANGED employees
       ELSE IF \E i \in DOMAIN employees \ {id} : employees[i].email = body.email
       THEN /\ resp' = Response("employee-update", 400)
            /\ UNCHANGED employees
       ELSE /\ employees' = [employees EXCEPT ![id].email = body.email]
            /\ resp' = Response("employee-update", 200)
    /\ UNCHANGED <<admins, residents, providers, gateEntries, bills, nextId, tokens, regs,
                 guests, userComplaints, calls>>

\* PATCH /api/employees/:id/status
EmployeeStatus(tok, id, status) ==
    /\ req' = Request("employee-status", tok, id)
    /\ IF authWithRole(tok, requireAdmin) # 0
       THEN /\ resp' = Rejected("employee-status", authWithRole(tok, requireAdmin))
            /\ UNCHANGED employees
       ELSE IF status \notin {"ACTIVE", "INACTIVE"}
       THEN /\ resp' = Response("employee-status", 400)
            /\ UNCHANGED employees
       ELSE IF id \notin DOMAIN employees
       THEN /\ resp' = Response("employee-status", 500)
            /\ UNCHANGED employees
       ELSE /\ employees' = [employees EXCEPT ![id].status = status]
            /\ resp' = Response("employee-status", 200)
    /\ UNCHANGED <<admins, residents, providers, gateEntries, bills, nextId, tokens, regs,
                 guests, userComplaints, calls>>

\* DELETE /api/employees/:id
EmployeeDelete(tok, id) ==
    /\ req' = Request("employee-delete", tok, id)
    /\ IF authWithRole(tok, requireAdmin) # 0
       THEN /\ resp' = Rejected("employee-delete", authWithRole(tok, requireAdmin))
            /\ UNCHANGED employees
       ELSE IF id \notin DOMAIN employees
       THEN /\ resp' = Response("employee-delete", 404)
            /\ UNCHANGED employees
       ELSE /\ employees' = Without(employees, id)
            /\ resp' = Response("employee-delete", 200)
    /\ UNCHANGED <<admins, residents, providers, gateEntries, bills, nextId, tokens, regs,
                 guests, userComplaints, calls>>

----------------------------------------------------------------------------
(* routes/maintenanceBills.ts *)

\* Bodies of POST /generate: residentIds, empty for none given, and billData,
\* whose shape tells whether MaintenanceBillSchema accepts it
GenerateBodies ==
    {[shape |-> sh, residentIds |-> ids, month |-> mo, year |-> 2024] :
        sh \in {"valid", "invalid"}, ids \in {{}, {1}, {2}},
        mo \in {"JANUARY", "FEBRUARY"}}

\* the residents the bills are generated for
billed(body) ==
    {i \in DOMAIN residents :
        /\ body.residentIds # {} => i \in body.residentIds
        /\ residents[i].status = "Active"
        /\ residents[i].approvalStatus = "APPROVED"}

\* nobody skipped
newResidents_All(body) == billed(body)

\* those of them without a bill of that month and year
newResidents(body) ==
    {i \in billed(body) :
        ~\E b \in DOMAIN bills :
            /\ bills[b].residentId = i
            /\ bills[b].month = body.month
            /\ bills[b].year = body.year}

\* the k-th smallest element of a set of numbers
Nth(S, k) == CHOOSE x \in S : Cardinality({y \in S : y < x}) = k - 1

\* POST /api/maintenance-bills/generate
BillGenerate(tok, body) ==
    /\ req' = [Request("bill-generate", tok, NoId) EXCEPT !.body = body]
    /\ IF authWithRole(tok, requireAdmin) # 0
       THEN /\ resp' = Rejected("bill-generate", authWithRole(tok, requireAdmin))
            /\ UNCHANGED <<bills, nextId>>
       ELSE IF body.shape # "valid" \/ billed(body) = {} \/ newResidents(body) = {}
       THEN /\ resp' = Response("bill-generate", 400)
            /\ UNCHANGED <<bills, nextId>>
       ELSE /\ bills' = bills @@
                  [b \in (nextId.bill + 1)..(nextId.bill + Cardinality(newResidents(body)))
                     |-> [residentId |-> Nth(newResidents(body), b - nextId.bill),
                          month |-> body.month, year |-> body.year,
                          status |-> "PENDING", paidDate |-> NoDate]]
            /\ nextId' = [nextId EXCEPT !.bill = @ + Cardinality(newResidents(body))]
            /\ resp' = [Response("bill-generate", 201) EXCEPT !.owners = newResidents(body)]
    /\ UNCHANGED <<admins, residents, providers, employees, gateEntries, tokens, regs, guests,
                 userComplaints, calls>>

\* The same handler with other requests running between its awaits (calls
\* as for the scans).  First step: the middleware, the schema, the findMany
\* of the residents and the findMany of their bills of that month and year;
\* fresh is const newResidents.
GenerateLookup(k, tok, body) ==
    /\ Free(k)
    /\ req' = [Request("bill-generate", tok, k) EXCEPT !.body = body]
    /\ IF authWithRole(tok, requireAdmin) # 0
       THEN /\ resp' = Rejected("bill-generate", authWithRole(tok, requireAdmin))
            /\ calls' = Put(k, [tok |-> tok, body |-> body, pc |-> "done",
                                status |-> authWithRole(tok, requireAdmin), fresh |-> {}])
       ELSE IF body.shape # "valid" \/ billed(body) = {} \/ newResidents(body) = {}
       THEN /\ resp' = Response("bill-generate", 400)
            /\ calls' = Put(k, [tok |-> tok, body |-> body, pc |-> "done",
                                status |-> 400, fresh |-> {}])
       ELSE /\ resp' = Rejected("bill-generate", 0)
            /\ calls' = Put(k, [tok |-> tok, body |-> body, pc |-> "found",
                                status |-> 0, fresh |-> newResidents(body)])
    /\ UNCHANGED <<tables, nextId, tokens, regs>>

\* Second step: the prisma.maintenanceBill.create of every resident of
\* newResidents, none of which reads the table, and the answer
GenerateCreate(k) ==
    /\ k \in DOMAIN calls
    /\ calls[k].pc = "found"
    /\ req' = [Request("bill-generate", calls[k].tok, k) EXCEPT !.body = calls[k].body]
    /\ bills' = bills @@
          [b \in (nextId.bill + 1)..(nextId.bill + Cardinality(calls[k].fresh))
             |-> [residentId |-> Nth(calls[k].fresh, b - nextId.bill),
                  month |-> calls[k].body.month, year |-> calls[k].body.year,
                  status |-> "PENDING", paidDate |-> NoDate]]
    /\ nextId' = [nextId EXCEPT !.bill = @ + Cardinality(calls[k].fresh)]
    /\ resp' = [Response("bill-generate", 201) EXCEPT !.owners = calls[k].fresh]
    /\ calls' = [calls EXCEPT ![k].pc = "done", ![k].status = 201]
    /\ UNCHANGED <<admins, residents, providers, employees, gateEntries, guests,
                   userComplaints, tokens, regs>>

\* Values of JavaScript with their type: an ObjectId in a token, a route
\* parameter or a column is a string, what parseInt returns is a number
\* (NaN among them), whatever digits the string starts with
StringValue(id) == [type |-> "string", value |-> id]
parseIntParam(id) == [type |-> "number", value |-> id]

\* a !== b: values of different types are never equal
StrictNotEqual(a, b) == a.type # b.type \/ a.value # b.value

\* where: { residentId } with the number parseInt returned: the column is
\* a String, on which the query is refused with a validation error that
\* the catch answers with 500; the rows it would find otherwise
findManyOfResident(table, residentId) ==
    IF residentId.type # "string" THEN [threw |-> TRUE, rows |-> {}]
    ELSE [threw |-> FALSE,
          rows |-> {i \in DOMAIN table : table[i].residentId = residentId.value}]

\* the handler of both GET /resident/:residentId routes: status and rows
ofResident(user, id, table) ==
    LET residentId == parseIntParam(id)
    IN IF user.type = "resident" /\ StrictNotEqual(StringValue(user.id), residentId)
       THEN [status |-> 403, rows |-> {}]
       ELSE IF findManyOfResident(table, residentId).threw
       THEN [status |-> 500, rows |-> {}]
       ELSE [status |-> 200, rows |-> findManyOfResident(table, residentId).rows]

\* GET /api/maintenance-bills/resident/:residentId
BillsOfResident(tok, id) ==
    /\ req' = Request("bills-of-resident", tok, id)
    /\ resp' = IF authWithRole(tok, requireAdminOrResident) # 0
               THEN Rejected("bills-of-resident", authWithRole(tok, requireAdminOrResident))
               ELSE [Response("bills-of-resident", ofResident(UserOf(tok), id, bills).status)
                       EXCEPT !.owners = {bills[i].residentId :
                                            i \in ofResident(UserOf(tok), id, bills).rows}]
    /\ UNCHANGED <<tables, nextId, tokens, regs, calls>>

\* PATCH /api/maintenance-bills/:id/status
BillStatus(tok, id, status) ==
    /\ req' = Request("bill-status", tok, id)
    /\ IF authWithRole(tok, requireAdmin) # 0
       THEN /\ resp' = Rejected("bill-status", authWithRole(tok, requireAdmin))
            /\ UNCHANGED bills
       ELSE IF status \notin {"PENDING", "PAID", "OVERDUE", UNDEF}
       THEN /\ resp' = Response("bill-status", 400)
            /\ UNCHANGED bills
       ELSE IF id \notin DOMAIN bills
       THEN /\ resp' = Response("bill-status", 404)
            /\ UNCHANGED bills
       ELSE /\ bills' = IF status = UNDEF THEN bills
                        ELSE [bills EXCEPT ![id].status = status,
                                           ![id].paidDate =
                                               IF status = "PAID" THEN SomeDate ELSE @]
            /\ resp' = Response("bill-status", 200)
    /\ UNCHANGED <<admins, residents, providers, employees, gateEntries, nextId, tokens, regs,
                 guests, userComplaints, calls>>

\* DELETE /api/maintenance-bills/:id
BillDelete(tok, id) ==
    /\ req' = Request("bill-delete", tok, id)
    /\ IF authWithRole(tok, requireAdmin) # 0
       THEN /\ resp' = Rejected("bill-delete", authWithRole(tok, requireAdmin))
            /\ UNCHANGED bills
       ELSE IF id \notin DOMAIN bills
       THEN /\ resp' = Response("bill-delete", 404)
            /\ UNCHANGED bills
       ELSE /\ bills' = Without(bills, id)
            /\ resp' = Response("bill-delete", 200)
    /\ UNCHANGED <<admins, residents, providers, employees, gateEntries, nextId, tokens, regs,
                 guests, userComplaints, calls>>

\* the where clause of GET /: residentId for a resident, nothing for the rest
listWhere(user, table) ==
    {i \in DOMAIN table : user.type = "resident" => table[i].residentId = user.id}

\* GET /api/maintenance-bills, without search or status in the query
BillList(tok) ==
    /\ req' = Request("bill-list", tok, NoId)
    /\ resp' = IF authenticateAndVerify(tok) # 0
               THEN Rejected("bill-list", authenticateAndVerify(tok))
               ELSE [Response("bill-list", 200) EXCEPT
                        !.owners = {bills[i].residentId : i \in listWhere(UserOf(tok), bills)}]
    /\ UNCHANGED <<tables, nextId, tokens, regs, calls>>

\* GET /api/maintenance-bills/:id
BillGet(tok, id) ==
    /\ req' = Request("bill-get", tok, id)
    /\ resp' = IF authenticateAndVerify(tok) # 0
               THEN Rejected("bill-get", authenticateAndVerify(tok))
               ELSE IF id \notin DOMAIN bills
               THEN Response("bill-get", 404)
               ELSE IF tok.type = "resident" /\ bills[id].residentId # tok.id
               THEN Response("bill-get", 403)
               ELSE [Response("bill-get", 200) EXCEPT !.owners = {bills[id].residentId}]
    /\ UNCHANGED <<tables, nextId, tokens, regs, calls>>

\* updateData of PATCH /:id/mark-paid: empty for a caller who is no admin
markedPaid_ByResident(row, user) ==
    [row EXCEPT !.status = "PAID", !.paidDate = SomeDate]

markedPaid(row, user) ==
    IF user.type = "admin" THEN [row EXCEPT !.status = "PAID", !.paidDate = SomeDate]
    ELSE row

\* PATCH /api/maintenance-bills/:id/mark-paid; resp.value is the message
MarkPaid(tok, id) ==
    /\ req' = Request("bill-mark-paid", tok, id)
    /\ IF authWithRole(tok, requireAdminOrResident) # 0
       THEN /\ resp' = Rejected("bill-mark-paid", authWithRole(tok, requireAdminOrResident))
            /\ UNCHANGED bills
       ELSE IF id \notin DOMAIN bills
       THEN /\ resp' = Response("bill-mark-paid", 404)
            /\ UNCHANGED bills
       ELSE IF tok.type = "resident" /\ bills[id].residentId # tok.id
       THEN /\ resp' = Response("bill-mark-paid", 403)
            /\ UNCHANGED bills
       ELSE IF bills[id].status = "PAID"
       THEN /\ resp' = Response("bill-mark-paid", 400)
            /\ UNCHANGED bills
       ELSE /\ bills' = [bills EXCEPT ![id] = markedPaid(@, UserOf(tok))]
            /\ resp' = [Response("bill-mark-paid", 200) EXCEPT
                           !.value = IF tok.type = "admin" THEN "Bill marked as paid"
                                     ELSE "Payment notification sent to admin",
                           !.owners = {bills[id].residentId}]
    /\ UNCHANGED <<admins, residents, providers, employees, gateEntries, guests,
                   userComplaints, nextId, tokens, regs, calls>>

----------------------------------------------------------------------------
(* routes/guests.ts *)

\* Bodies of POST /: shape tells whether GuestRegistrationSchema accepts,
\* residentId is req.body.residentId, NoId when the body has none, 3 the
\* ObjectId of no resident
GuestBodies ==
    {[shape |-> sh, residentId |-> r, visitDate |-> d] :
        sh \in {"valid", "invalid"}, r \in {NoId, 1, 2, 3, BadId}, d \in Instants}

\* req.body.residentId taken from any caller
targetResidentId_FromBody(user, body) ==
    IF body.residentId # NoId THEN body.residentId ELSE user.id

\* let targetResidentId
targetResidentId(user, body) ==
    IF user.type = "admin" /\ body.residentId # NoId THEN body.residentId ELSE user.id

\* the status POST / answers with
guestCreateStatus(user, body, now) ==
    IF body.shape # "valid" THEN 400
    ELSE IF user.type = "admin" /\ body.residentId = NoId THEN 400
    ELSE IF targetResidentId(user, body) = BadId THEN 400   \* findUnique throws
    ELSE IF targetResidentId(user, body) \notin DOMAIN residents THEN 404
    ELSE IF DateLt(body.visitDate, now) THEN 400
    ELSE 201

\* POST /api/guests
GuestCreate(tok, body, now) ==
    /\ req' = [Request("guest-create", tok, NoId) EXCEPT !.body = body]
    /\ IF authWithRole(tok, requireAdminOrResident) # 0
       THEN /\ resp' = Rejected("guest-create", authWithRole(tok, requireAdminOrResident))
            /\ UNCHANGED <<guests, nextId>>
       ELSE IF guestCreateStatus(UserOf(tok), body, now) # 201
       THEN /\ resp' = Response("guest-create", guestCreateStatus(UserOf(tok), body, now))
            /\ UNCHANGED <<guests, nextId>>
       ELSE /\ guests' = guests @@
                  ((nextId.guest + 1) :>
                      [residentId |-> targetResidentId(UserOf(tok), body),
                       status |-> "ACTIVE"])
            /\ nextId' = [nextId EXCEPT !.guest = @ + 1]
            /\ resp' = [Response("guest-create", 201) EXCEPT
                           !.owners = {targetResidentId(UserOf(tok), body)}]
    /\ UNCHANGED <<admins, residents, providers, employees, gateEntries, bills,
                   userComplaints, tokens, regs, calls>>

\* GET /api/guests, without search or status in the query
GuestList(tok) ==
    /\ req' = Request("guest-list", tok, NoId)
    /\ resp' = IF authenticateAndVerify(tok) # 0
               THEN Rejected("guest-list", authenticateAndVerify(tok))
               ELSE [Response("guest-list", 200) EXCEPT
                        !.owners = {guests[i].residentId : i \in listWhere(UserOf(tok), guests)}]
    /\ UNCHANGED <<tables, nextId, tokens, regs, calls>>

\* GET /api/guests/:id
GuestGet(tok, id) ==
    /\ req' = Request("guest-get", tok, id)
    /\ resp' = IF authenticateAndVerify(tok) # 0
               THEN Rejected("guest-get", authenticateAndVerify(tok))
               ELSE IF id \notin DOMAIN guests
               THEN Response("guest-get", 404)
               ELSE IF tok.type = "resident" /\ guests[id].residentId # tok.id
               THEN Response("guest-get", 403)
               ELSE [Response("guest-get", 200) EXCEPT !.owners = {guests[id].residentId}]
    /\ UNCHANGED <<tables, nextId, tokens, regs, calls>>

\* GET /api/guests/resident/:residentId; the handler fails before it
\* comes to expire guests
GuestsOfResident(tok, id) ==
    /\ req' = Request("guests-of-resident", tok, id)
    /\ resp' = IF authWithRole(tok, requireAdminOrResident) # 0
               THEN Rejected("guests-of-resident", authWithRole(tok, requireAdminOrResident))
               ELSE [Response("guests-of-resident", ofResident(UserOf(tok), id, guests).status)
                       EXCEPT !.owners = {guests[i].residentId :
                                            i \in ofResident(UserOf(tok), id, guests).rows}]
    /\ UNCHANGED <<tables, nextId, tokens, regs, calls>>

----------------------------------------------------------------------------
(* server.ts *)

\* ALLOWED_ORIGINS of the environment, which server.ts never reads
ALLOWED_ORIGINS == {"http://localhost:3000", "http://localhost:5173"}

Origins == ALLOWED_ORIGINS \cup {"http://evil.example", "none"}

corsOptions == [origin |-> "*", credentials |-> FALSE]

\* The Access-Control-Allow-Origin header cors(corsOptions) sets: "*" for
\* the origin "*" whatever the request, "null" for no header
allowOrigin(origin) == IF corsOptions.origin = "*" THEN "*" ELSE "null"

\* GET /health from a page of some origin; resp.value is the
\* Access-Control-Allow-Origin header of the response
Health(origin) ==
    /\ req' = [Request("health", NoToken, NoId) EXCEPT !.origin = origin]
    /\ resp' = [Response("health", 200) EXCEPT !.value = allowOrigin(origin)]
    /\ UNCHANGED <<tables, nextId, tokens, regs, calls>>

----------------------------------------------------------------------------
(* lib/seed.ts *)

seedResidents ==
    <<seedResident,
      [seedResident EXCEPT !.email = "sarah.johnson@example.com", !.apartment = "B-205"],
      [seedResident EXCEPT !.email = "ahmed.khan@example.com", !.apartment = "C-301"]>>

seedProviders ==
    <<seedProvider,
      [seedProvider EXCEPT !.email = "maria.cleaner@example.com",
                           !.username = "mariacleaner"],
      [seedProvider EXCEPT !.email = "hassan.electrician@example.com",
                           !.username = "hassanelectrician"]>>

\* upsert({ where: { email }, update: {} }): the rows of the script whose
\* email the table does not hold yet
Missing(table, rows) ==
    SelectSeq(rows, LAMBDA r : \A i \in DOMAIN table : table[i].email # r.email)

\* the table after the transaction of upserts has committed
Upserted(table, rows, last) ==
    table @@ [i \in (last + 1)..(last + Len(Missing(table, rows))) |->
                 Missing(table, rows)[i - last]]

\* the id of the row an upsert returns
IdOf(table, email) == CHOOSE i \in DOMAIN table : table[i].email = email

\* a unique index makes a create of the transaction throw
residentsClash ==
    \E k \in 1..Len(Missing(residents, seedResidents)) : \E i \in DOMAIN residents :
        residents[i].apartment = Missing(residents, seedResidents)[k].apartment

providersClash ==
    \E k \in 1..Len(Missing(providers, seedProviders)) : \E i \in DOMAIN providers :
        providers[i].username = Missing(providers, seedProviders)[k].username

seedBill(residentId, status) ==
    [residentId |-> residentId, month |-> "JANUARY", year |-> 2024, status |-> status,
     paidDate |-> IF status = "PAID" THEN SomeDate ELSE NoDate]

seedGuest(residentId) == [residentId |-> residentId, status |-> "ACTIVE"]

seedEntry(person, apartment, entryType, vehicle, residentId) ==
    [type |-> "ENTRY", person |-> person, apartment |-> apartment,
     entryType |-> entryType, vehicle |-> vehicle, gate |-> "MAIN_GATE",
     method |-> "QR_CODE", residentId |-> residentId]

\* npm run seed on a database that holds no admin and no employee yet.  The
\* script stops at the first transaction that throws; what it wrote before
\* stays.  resp.status is the exit code of the process.
Seed ==
    /\ admins = Empty /\ employees = Empty
    /\ req' = Request("seed", NoToken, NoId)
    /\ admins' = ((nextId.admin + 1) :> seedAdmin)
    /\ IF residentsClash
       THEN /\ resp' = Response("seed", 1)
            /\ nextId' = [nextId EXCEPT !.admin = @ + 1]
            /\ UNCHANGED <<residents, providers, employees, bills, guests, gateEntries>>
       ELSE /\ residents' = Upserted(residents, seedResidents, nextId.resident)
            /\ IF providersClash
               THEN /\ resp' = Response("seed", 1)
                    /\ nextId' = [nextId EXCEPT
                          !.admin = @ + 1,
                          !.resident = @ + Len(Missing(residents, seedResidents))]
                    /\ UNCHANGED <<providers, employees, bills, guests, gateEntries>>
               ELSE /\ providers' = Upserted(providers, seedProviders, nextId.provider)
                    /\ employees' = seedEmployees
                    /\ bills' = bills @@
                          ((nextId.bill + 1) :>
                              seedBill(IdOf(residents', seedResidents[1].email), "PAID"))
                          @@ ((nextId.bill + 2) :>
                              seedBill(IdOf(residents', seedResidents[2].email), "PENDING"))
                          @@ ((nextId.bill + 3) :>
                              seedBill(IdOf(residents', seedResidents[3].email), "PENDING"))
                    /\ guests' = guests @@
                          ((nextId.guest + 1) :>
                              seedGuest(IdOf(residents', seedResidents[1].email)))
                    /\ gateEntries' = gateEntries \o
                          <<seedEntry("John Smith", "A-101", "RESIDENT", Str("None"),
                                      IdOf(residents', seedResidents[1].email)),
                            seedEntry("John Visitor", "A-101", "GUEST",
                                      Str("Car (ABC-123)"),
                                      IdOf(residents', seedResidents[1].email))>>
                    /\ nextId' = [nextId EXCEPT
                          !.admin = @ + 1,
                          !.resident = @ + Len(Missing(residents, seedResidents)),
                          !.provider = @ + Len(Missing(providers, seedProviders)),
                          !.employee = @ + 2,
                          !.bill = @ + 3,
                          !.guest = @ + 1]
                    /\ resp' = Response("seed", 0)
    /\ UNCHANGED <<tokens, regs, userComplaints, calls>>

----------------------------------------------------------------------------
(* The accounts: an empty database, the seed script and the routes of      *)
(* routes/auth.ts, routes/residents.ts and routes/serviceProviders.ts, one *)
(* request at a time                                                       *)

Init ==
    /\ admins = Empty
    /\ residents = Empty
    /\ providers = Empty
    /\ employees = Empty
    /\ gateEntries = <<>>
    /\ bills = Empty
    /\ guests = Empty
    /\ userComplaints = Empty
    /\ nextId = [admin |-> 0, resident |-> 0, provider |-> 0, employee |-> 0, bill |-> 0,
                 guest |-> 0, complaint |-> 0]
    /\ tokens = {}
    /\ req = NoRequest
    /\ resp = NoResponse
    /\ regs = Empty
    /\ calls = Empty

\* ids a request can name: the ones handed out so far and one never handed out
ResidentIds == 1..(nextId.resident + 1)
ProviderIds == 1..(nextId.provider + 1)

\* what a request the middleware lets through carries; a rejected request
\* carries a body nobody reads
Carried(tok, allowedRoles, S) ==
    IF authWithRole(tok, allowedRoles) = 0 THEN S ELSE {CHOOSE b \in S : TRUE}

Next ==
    \/ Seed
    \/ \E body \in RegisterBodies : ResidentRegister(body)
    \/ \E email \in Emails : \E password \in Opt({"resident123", "secret99"}) :
          ResidentLogin(email, password)
    \/ \E password \in Opt({"admin123", "secret99"}) : AdminLogin("admin", password)
    \/ \E email \in {"ahmad.plumber@example.com"} :
          \E password \in Opt({"provider123", "secret99"}) : ProviderLogin(email, password)
    \/ \E tok \in Bearers : \E id \in Carried(tok, requireAdminOrResident, ResidentIds) :
          GetResident(tok, id)
    \/ \E tok \in {NoToken} \cup tokens : \E id \in ResidentIds :
          \E approvalStatus \in ApprovalStatuses :
             ResidentApproval(tok, id, approvalStatus, UNDEF)
    \/ \E tok \in Bearers : \E id \in Carried(tok, requireAdmin, ResidentIds) :
          ResidentDelete(tok, id)

Spec == Init /\ [][Next]_vars

----------------------------------------------------------------------------
(* The account-status check: one account of each type, each row holding    *)
(* any value its columns admit (model Admin has status Boolean, model      *)
(* Resident status String and approvalStatus ApprovalStatus, the other two *)
(* their status enums), and requests that only read                        *)

ResidentStates == {"Active", "Pending", "Rejected", "ACTIVE"}
ApprovalStates == {"PENDING", "APPROVED", "REJECTED"}
ProviderStates == {"PENDING", "ACTIVE", "REJECTED", "SUSPENDED"}
EmployeeStates == {"ACTIVE", "INACTIVE"}

InitAuth ==
    /\ \E status \in BOOLEAN : admins = (1 :> [seedAdmin EXCEPT !.status = status])
    /\ \E status \in ResidentStates : \E approvalStatus \in ApprovalStates :
          residents = (1 :> [seedResident EXCEPT !.status = status,
                                                 !.approvalStatus = approvalStatus])
    /\ \E status \in ProviderStates :
          providers = (1 :> [seedProvider EXCEPT !.status = status])
    /\ \E status \in EmployeeStates :
          employees = (1 :> [seedEmployees[1] EXCEPT !.status = status])
    /\ gateEntries = <<>>
    /\ bills = Empty
    /\ guests = Empty
    /\ userComplaints = Empty
    /\ nextId = [admin |-> 1, resident |-> 1, provider |-> 1, employee |-> 1, bill |-> 0,
                 guest |-> 0, complaint |-> 0]
    /\ tokens = {Jwt("admin", 1), Jwt("resident", 1), Jwt("serviceProvider", 1)}
    /\ req = NoRequest
    /\ resp = NoResponse
    /\ regs = Empty
    /\ calls = Empty

NextAuth ==
    \/ \E tok \in Bearers : AdminRead("gate-list", tok)
    \/ \E tok \in Bearers : \E id \in 1..2 : GetResident(tok, id)
    \/ \E tok \in Bearers : \E id \in 1..2 : GetProvider(tok, id)

SpecAuth == InitAuth /\ [][NextAuth]_vars

----------------------------------------------------------------------------
(* The admin-only routes: the seeded accounts after john.smith has been    *)
(* approved, with the admin and john.smith logged in                       *)

InitAdmin ==
    /\ admins = (1 :> seedAdmin)
    /\ residents = (1 :> approved(seedResident, "APPROVED"))
    /\ providers = (1 :> seedProvider)
    /\ employees = (1 :> seedEmployees[1])
    /\ gateEntries = <<>>
    /\ bills = Empty
    /\ guests = Empty
    /\ userComplaints = Empty
    /\ nextId = [admin |-> 1, resident |-> 1, provider |-> 1, employee |-> 1, bill |-> 0,
                 guest |-> 0, complaint |-> 0]
    /\ tokens = {Jwt("admin", 1), Jwt("resident", 1)}
    /\ req = NoRequest
    /\ resp = NoResponse
    /\ regs = Empty
    /\ calls = Empty

\* the code the gate scans here, and bodies typed in that GateEntrySchema refuses
AdminScans == {[EmptyQr EXCEPT !.type = "resident_entry", !.residentName = "Ann",
                               !.apartment = "A-101", !.residentId = 1]}
AdminManuals == {b \in ManualBodies : b.type = "IN" /\ b.entryType = "Resident"}

\* who calls here: nobody, a token that does not verify, the admin, john.smith
Callers == {NoToken, BadToken} \cup tokens

NextAdmin ==
    \/ \E tok \in Callers : \E route \in {"gate-list", "gate-stats", "employee-list"} :
          AdminRead(route, tok)
    \/ /\ Len(gateEntries) < MaxGateLog - 1
       /\ \E tok \in Callers : \E qr \in Carried(tok, requireAdmin, AdminScans) :
             QrScan(tok, qr, 1)
    \/ /\ Len(gateEntries) < MaxGateLog - 1
       /\ \E tok \in Callers : \E body \in Carried(tok, requireAdmin, AdminManuals) :
             ManualEntry(tok, body)
    \/ \E tok \in Callers : \E id \in Carried(tok, requireAdmin, 1..2) :
          DeleteEntry(tok, id)
    \/ /\ nextId.employee < MaxEmployees
       /\ \E tok \in Callers :
             \E body \in Carried(tok, requireAdmin,
                                  {b \in EmployeeBodies : b.email # seedEmployees[1].email}) :
                EmployeeCreate(tok, body)
    \/ \E tok \in Callers : \E id \in Carried(tok, requireAdmin, 1..nextId.employee) :
          \E body \in Carried(tok, requireAdmin,
                               {b \in EmployeeBodies : b.email = seedEmployees[1].email}) :
             EmployeeUpdate(tok, id, body)
    \/ \E tok \in Callers : \E id \in Carried(tok, requireAdmin, 1..nextId.employee) :
          \E status \in Carried(tok, requireAdmin, {"ACTIVE", "GONE"}) :
             EmployeeStatus(tok, id, status)
    \/ \E tok \in Callers : \E id \in Carried(tok, requireAdmin, 1..nextId.employee) :
          EmployeeDelete(tok, id)
    \/ /\ nextId.bill < MaxBills
       /\ \E tok \in Callers :
             \E body \in Carried(tok, requireAdmin,
                                  {b \in GenerateBodies :
                                      b.month = "JANUARY" /\ b.residentIds \subseteq {1}}) :
                BillGenerate(tok, body)
    \/ \E tok \in Callers : \E id \in Carried(tok, requireAdmin, 1..(nextId.bill + 1)) :
          \E status \in Carried(tok, requireAdmin, {"PENDING", "VOID"}) :
             BillStatus(tok, id, status)
    \/ \E tok \in Callers : \E id \in Carried(tok, requireAdmin, 1..(nextId.bill + 1)) :
          BillDelete(tok, id)
    \/ \E tok \in Callers : \E id \in Carried(tok, requireAdmin, 1..1) :
          ResidentDelete(tok, id)

SpecAdmin == InitAdmin /\ [][NextAdmin]_vars

----------------------------------------------------------------------------
(* The stored passwords: the seed script, the registrations, the profile   *)
(* updates, and the logins that hand out the tokens the updates need       *)

NextPw ==
    \/ Seed
    \/ \E body \in {b \in RegisterBodies : b.apartment = "A-101"} : ResidentRegister(body)
    \/ \E body \in {b \in ProviderBodies : b.username = "bobfix"} : ProviderRegister(body)
    \/ \E password \in {"admin123"} : AdminLogin("admin", password)
    \/ \E email \in ProviderEmails : \E password \in {"provider123", "secret99"} :
          ProviderLogin(email, password)
    \/ \E tok \in Bearers :
          \E id \in Carried(tok, requireAdminOrServiceProvider, ProviderIds) :
             \E body \in Carried(tok, requireAdminOrServiceProvider, UpdateBodies) :
                ProviderUpdate(tok, id, body)
    \/ \E tok \in {NoToken} \cup tokens : \E id \in ResidentIds :
          \E body \in UpdateBodies : ResidentUpdate(tok, id, body)

SpecPw == Init /\ [][NextPw]_vars

----------------------------------------------------------------------------
(* Registrations of residents running side by side *)

NextReg ==
    \/ \E body \in {b \in RegisterBodies : b.password # UNDEF} : RegisterCheck(body)
    \/ \E k \in DOMAIN regs : RegisterCreate(k)

SpecReg == Init /\ [][NextReg]_vars

----------------------------------------------------------------------------
(* Bills and guests of two residents: the seeded accounts after both       *)
(* residents have been approved, the bills and the guest of the seed, and  *)
(* everybody logged in                                                     *)

InitOwn ==
    /\ admins = (1 :> seedAdmin)
    /\ residents = (1 :> approved(seedResidents[1], "APPROVED"))
                     @@ (2 :> approved(seedResidents[2], "APPROVED"))
    /\ providers = (1 :> seedProvider)
    /\ employees = (1 :> seedEmployees[1])
    /\ gateEntries = <<>>
    /\ bills = (1 :> seedBill(1, "PAID")) @@ (2 :> seedBill(2, "PENDING"))
    /\ guests = (1 :> seedGuest(1))
    /\ userComplaints = Empty
    /\ nextId = [admin |-> 1, resident |-> 2, provider |-> 1, employee |-> 1, bill |-> 2,
                 guest |-> 1, complaint |-> 0]
    /\ tokens = {Jwt("admin", 1), Jwt("resident", 1), Jwt("resident", 2),
                 Jwt("serviceProvider", 1)}
    /\ req = NoRequest
    /\ resp = NoResponse
    /\ regs = Empty
    /\ calls = Empty

\* who calls here: nobody, the four who logged in, and an employee, for whom
\* a token is signed elsewhere with the secret of this server
OwnCallers == {NoToken, Jwt("employee", 1)} \cup tokens

NextOwn ==
    \/ \E tok \in OwnCallers : BillList(tok)
    \/ \E tok \in OwnCallers : \E id \in 1..(nextId.bill + 1) : BillGet(tok, id)
    \/ \E tok \in OwnCallers : \E id \in 1..(nextId.bill + 1) : MarkPaid(tok, id)
    \/ /\ nextId.guest < MaxGuests
       /\ \E tok \in OwnCallers :
             \E body \in Carried(tok, requireAdminOrResident, GuestBodies) :
                \E now \in {MaxTime} : GuestCreate(tok, body, now)
    \/ \E tok \in OwnCallers : GuestList(tok)
    \/ \E tok \in OwnCallers : \E id \in 1..(nextId.guest + 1) : GuestGet(tok, id)
    \/ \E origin \in Origins : Health(origin)

SpecOwn == InitOwn /\ [][NextOwn]_vars

----------------------------------------------------------------------------
(* The records of a resident: the same database, the routes that create    *)
(* bills, guests and user complaints, and the deletion of a resident       *)

NextData ==
    \/ /\ nextId.guest < MaxGuests
       /\ \E tok \in OwnCallers :
             \E body \in Carried(tok, requireAdminOrResident,
                                  {b \in GuestBodies : b.shape = "valid"}) :
                GuestCreate(tok, body, 1)
    \/ /\ Cardinality(DOMAIN bills) < MaxRows
       /\ \E tok \in OwnCallers :
             \E body \in Carried(tok, requireAdmin,
                                  {b \in GenerateBodies : b.shape = "valid"}) :
                BillGenerate(tok, body)
    \/ /\ nextId.complaint < MaxComplaints
       /\ \E tok \in OwnCallers : \E given \in BOOLEAN : ComplaintCreate(tok, given)
    \/ \E tok \in OwnCallers : \E id \in Carried(tok, requireAdmin, 1..2) :
          ResidentDelete(tok, id)

SpecData == InitOwn /\ [][NextData]_vars

----------------------------------------------------------------------------
(* The profile of a resident: the same database and PATCH /api/residents/:id *)

NextProfile ==
    \E tok \in OwnCallers : \E id \in 1..(nextId.resident + 1) :
        \E body \in ProfileBodies : ResidentUpdate(tok, id, body)

SpecProfile == InitOwn /\ [][NextProfile]_vars

----------------------------------------------------------------------------
(* Bill runs: the same database, bills generated and deleted, one request  *)
(* at a time                                                               *)

NextBills ==
    \/ /\ nextId.bill < MaxRows
       /\ \E tok \in OwnCallers : \E body \in Carried(tok, requireAdmin, GenerateBodies) :
             BillGenerate(tok, body)
    \/ \E tok \in OwnCallers : \E id \in Carried(tok, requireAdmin, 1..nextId.bill) :
          BillDelete(tok, id)

SpecBills == InitOwn /\ [][NextBills]_vars

----------------------------------------------------------------------------
(* Bill runs side by side: the same database, the admin's runs in steps    *)

NextGenerate ==
    \/ /\ nextId.bill < MaxRows
       /\ \E k \in 1..MaxCalls : \E tok \in {NoToken, Jwt("admin", 1)} :
             \E body \in Carried(tok, requireAdmin, GenerateBodies) :
                GenerateLookup(k, tok, body)
    \/ \E k \in DOMAIN calls : GenerateCreate(k)

SpecGenerate == InitOwn /\ [][NextGenerate]_vars

----------------------------------------------------------------------------
(* Employee ids: a staff of none or one, whose employeeId is the first or  *)
(* one of a long row of registrations                                      *)

FirstIds == {<<0, 0, 1>>, <<9, 9, 8>>}

InitStaff ==
    /\ admins = (1 :> seedAdmin)
    /\ residents = Empty /\ providers = Empty
    /\ \E staff \in {Empty} \cup {(1 :> [seedEmployees[1] EXCEPT !.employeeId = d]) :
                                      d \in FirstIds} :
          /\ employees = staff
          /\ nextId = [resident |-> 0, provider |-> 0,
                       employee |-> Cardinality(DOMAIN staff),
                       bill |-> 0, guest |-> 0, complaint |-> 0]
    /\ gateEntries = <<>>
    /\ bills = Empty /\ guests = Empty /\ userComplaints = Empty
    /\ tokens = {Jwt("admin", 1)}
    /\ req = NoRequest /\ resp = NoResponse
    /\ regs = Empty /\ calls = Empty

NextStaff ==
    \/ /\ nextId.employee < MaxRows
       /\ \E tok \in {NoToken, Jwt("admin", 1)} :
             \E body \in Carried(tok, requireAdmin,
                                  {[shape |-> "valid", email |-> e] : e \in MoreEmails}
                                  \cup {[shape |-> "invalid",
                                         email |-> "guard2@residentialapp.com"]}) :
                EmployeeCreate(tok, body)
    \/ \E tok \in {NoToken, Jwt("admin", 1)} :
          \E id \in Carried(tok, requireAdmin, 1..(nextId.employee + 1)) :
             EmployeeDelete(tok, id)

SpecStaff == InitStaff /\ [][NextStaff]_vars

----------------------------------------------------------------------------
(* The records of one resident: the same database, guests registered and   *)
(* bills paid, and the two routes that list a resident's records           *)

NextRecords ==
    \/ \E tok \in OwnCallers : \E id \in 1..(nextId.resident + 1) : BillsOfResident(tok, id)
    \/ \E tok \in OwnCallers : \E id \in 1..(nextId.resident + 1) : GuestsOfResident(tok, id)
    \/ \E tok \in {Jwt("admin", 1)} : \E id \in 1..nextId.bill : MarkPaid(tok, id)
    \/ /\ nextId.guest < MaxGuests
       /\ \E tok \in {Jwt("resident", 1), Jwt("resident", 2)} :
             \E body \in {b \in GuestBodies : b.shape = "valid" /\ b.residentId = NoId} :
                GuestCreate(tok, body, 1)

SpecRecords == InitOwn /\ [][NextRecords]_vars

----------------------------------------------------------------------------
(* What the responses show of an account: one resident and one service     *)
(* provider of the seed, approved, who log in, read and update their       *)
(* profiles, and the admin and one more of each who registers              *)

InitAccounts ==
    /\ admins = (1 :> seedAdmin)
    /\ residents = (1 :> approved(seedResidents[1], "APPROVED"))
    /\ providers = (1 :> seedProvider)
    /\ employees = Empty
    /\ gateEntries = <<>>
    /\ bills = Empty /\ guests = Empty /\ userComplaints = Empty
    /\ nextId = [admin |-> 1, resident |-> 1, provider |-> 1, employee |-> 0, bill |-> 0,
                 guest |-> 0, complaint |-> 0]
    /\ tokens = {}
    /\ req = NoRequest /\ resp = NoResponse
    /\ regs = Empty /\ calls = Empty

NextAccounts ==
    \/ \E body \in {b \in RegisterBodies : b.shape = "valid" /\ b.email = "ann@example.com"} :
          ResidentRegister(body)
    \/ \E body \in {b \in ProviderBodies : b.shape = "valid" /\ b.username = "bobfix"} :
          ProviderRegister(body)
    \/ \E password \in {"admin123"} : AdminLogin("admin", password)
    \/ \E email \in {seedResidents[1].email} : \E password \in {"resident123", "secret99"} :
          ResidentLogin(email, password)
    \/ \E email \in {seedProvider.email} : \E password \in {"provider123", "secret99"} :
          ProviderLogin(email, password)
    \/ \E tok \in {NoToken} \cup tokens : \E id \in ResidentIds : GetResident(tok, id)
    \/ \E tok \in {NoToken} \cup tokens : \E id \in ProviderIds : GetProvider(tok, id)
    \/ \E tok \in {NoToken} \cup tokens : \E id \in ResidentIds :
          \E body \in {b \in ProfileBodies : b.shape = "valid" /\ b.apartment = UNDEF} :
             ResidentUpdate(tok, id, body)
    \/ \E tok \in {NoToken} \cup tokens :
          \E id \in Carried(tok, requireAdminOrServiceProvider, ProviderIds) :
             \E body \in Carried(tok, requireAdminOrServiceProvider,
                                  {b \in UpdateBodies : b.email = UNDEF}) :
                ProviderUpdate(tok, id, body)

SpecAccounts == InitAccounts /\ [][NextAccounts]_vars

----------------------------------------------------------------------------
(* Lists by the page: the same database, complaints filed and the lists of *)
(* residents and of complaints asked for with every page and limit          *)

NextLists ==
    \/ \E tok \in OwnCallers : \E query \in Carried(tok, requireAdmin, Queries) :
          ResidentList(tok, query)
    \/ \E tok \in OwnCallers : \E query \in Carried(tok, requireAdminOrResident, Queries) :
          ComplaintList(tok, query)
    \/ /\ nextId.complaint < MaxComplaints
       /\ \E tok \in {Jwt("resident", 1)} : ComplaintCreate(tok, TRUE)

SpecLists == InitOwn /\ [][NextLists]_vars

----------------------------------------------------------------------------
(* Approvals: a resident registers beside the one of the seed, and anyone  *)
(* sends approval requests and profile updates for either                   *)

NextApproval ==
    \/ \E body \in {b \in RegisterBodies : b.email = "ann@example.com"} :
          ResidentRegister(body)
    \/ \E password \in {"admin123"} : AdminLogin("admin", password)
    \/ \E tok \in {NoToken} \cup tokens : \E id \in ResidentIds :
          \E approvalStatus \in ApprovalStatuses : \E status \in BodyStatuses :
             ResidentApproval(tok, id, approvalStatus, status)
    \/ \E tok \in {NoToken} \cup tokens : \E id \in ResidentIds :
          \E body \in {b \in ProfileBodies : b.shape = "valid" /\ b.email = UNDEF} :
             ResidentUpdate(tok, id, body)

SpecApproval == InitAccounts /\ [][NextApproval]_vars

----------------------------------------------------------------------------
(* Tokens that outlive their account: the same database with everyone      *)
(* logged in; residents are rejected, approved again and deleted, and the  *)
(* tokens issued before are presented to /me, /refresh and the bill list   *)

NextSession ==
    \/ \E tok \in OwnCallers : Me(tok)
    \/ \E tok \in OwnCallers : Refresh(tok)
    \/ \E tok \in OwnCallers : BillList(tok)
    \/ \E id \in 1..2 : \E approvalStatus \in {"APPROVED", "REJECTED"} :
          ResidentApproval(Jwt("admin", 1), id, approvalStatus, UNDEF)
    \/ \E id \in 1..2 : ResidentDelete(Jwt("admin", 1), id)

SpecSession == InitOwn /\ [][NextSession]_vars

----------------------------------------------------------------------------
(* The key a scan is matched on *)

KeyOf(e) ==
    CASE e.entryType \in {"Service Provider", "Employee"} -> <<e.person, e.entryType>>
      [] e.entryType = "Resident Vehicle" ->
           <<e.person, e.apartment, e.entryType, e.vehicle>>
      [] OTHER -> <<e.person, e.apartment, e.entryType>>

\* the entries before place n that match, on the key of the entry at n
EarlierOfKey(n) ==
    {i \in 1..(n - 1) :
        LET e == gateEntries[n]
            a == gateEntries[i]
        IN CASE e.entryType \in {"Service Provider", "Employee"} ->
                  a.person = e.person /\ a.entryType = e.entryType
             [] e.entryType = "Resident Vehicle" ->
                  a.person = e.person /\ a.apartment = e.apartment
                  /\ a.entryType = e.entryType /\ a.vehicle = e.vehicle
             [] OTHER ->
                  a.person = e.person /\ a.apartment = e.apartment
                  /\ a.entryType = e.entryType}

ScanAccepted == resp.route = "qr-scan" /\ resp.status = 201

C2_Alternates ==
    \A n \in 1..Len(gateEntries) :
        LET sameKey == {i \in 1..Len(gateEntries) : KeyOf(gateEntries[i]) = KeyOf(gateEntries[n])}
            entries == Cardinality({i \in sameKey : gateEntries[i].type = "ENTRY"})
            exits == Cardinality({i \in sameKey : gateEntries[i].type = "EXIT"})
            before == Cardinality({i \in sameKey : i < n})
        IN /\ gateEntries[n].type = IF before % 2 = 0 THEN "ENTRY" ELSE "EXIT"
           /\ entries - exits \in {0, 1}

\* One key scanned three times: ENTRY, EXIT, ENTRY
C2_Witness ==
    /\ Len(gateEntries) = 3
    /\ KeyOf(gateEntries[1]) = KeyOf(gateEntries[2])
    /\ KeyOf(gateEntries[2]) = KeyOf(gateEntries[3])
    /\ gateEntries[3].type = "ENTRY"
    /\ gateEntries[2].type = "EXIT"

----------------------------------------------------------------------------
(* The guarded routes *)

AdminRoutes ==
    {"gate-list", "qr-scan", "gate-create", "gate-delete", "gate-stats",
     "employee-list", "employee-create", "employee-update", "employee-status",
     "employee-delete", "bill-generate", "bill-status", "bill-delete",
     "resident-delete"}

\* the roles the role middleware of a route lets through
RolesOf(route) ==
    CASE route \in AdminRoutes -> {"admin"}
      [] route = "resident-get" -> {"admin", "resident"}
      [] route = "provider-update" -> {"admin", "serviceProvider"}
      [] OTHER -> {}

GuardedRoutes == AdminRoutes \cup {"resident-get", "provider-update"}

\* the account a token names is in its table
AccountExists(tok) ==
    CASE tok.type = "admin" -> tok.id \in DOMAIN admins
      [] tok.type = "resident" -> tok.id \in DOMAIN residents
      [] tok.type = "serviceProvider" -> tok.id \in DOMAIN providers
      [] tok.type = "employee" -> tok.id \in DOMAIN employees
      [] OTHER -> FALSE

\* C3: on a route guarded by the authentication and role middleware the
\* handler runs only if the bearer token verifies, the account it names
\* exists and its type is one of the roles the route allows; a request the
\* middleware stops is answered 401 when it carries no token, 403 when the
\* token does not verify, names an unrecognized account type or a role that
\* is not allowed, 404 when the account is missing, and changes no table.
C3_GuardedRoutes ==
    [][req'.route \in GuardedRoutes =>
          /\ resp'.ran =>
                /\ verifyToken(req'.tok)
                /\ AccountExists(req'.tok)
                /\ req'.tok.type \in RolesOf(req'.route)
          /\ ~resp'.ran =>
                /\ tables' = tables
                /\ resp'.status =
                      IF req'.tok = NoToken THEN 401
                      ELSE IF ~verifyToken(req'.tok) THEN 403
                      ELSE IF req'.tok.type \notin UserTypes THEN 403
                      ELSE IF ~AccountExists(req'.tok) THEN 404
                      ELSE 403]_vars

\* A resident who logged in and was deleted since asks for a resident: 404
C3_Witness ==
    /\ req.route = "resident-get"
    /\ req.tok.type = "resident"
    /\ req.tok \in tokens
    /\ ~resp.ran
    /\ resp.status = 404

\* the account a token names is not active
Inactive(tok) ==
    CASE tok.type = "admin" -> ~admins[tok.id].status
      [] tok.type = "resident" ->
           residents[tok.id].status # "Active"
           \/ residents[tok.id].approvalStatus # "APPROVED"
      [] tok.type = "serviceProvider" -> providers[tok.id].status # "ACTIVE"
      [] tok.type = "employee" -> employees[tok.id].status # "ACTIVE"
      [] OTHER -> FALSE

\* C4: a request to a route behind authenticateAndVerify that carries a
\* valid token of an existing account that is not active (an admin whose
\* status is false, a resident whose status is not Active or whose approval
\* is not APPROVED, a service provider or an employee whose status is not
\* ACTIVE) is answered 403 and the handler does not run.
C4_InactiveRejected ==
    [][/\ req'.route \in GuardedRoutes \cup {"provider-get"}
       /\ verifyToken(req'.tok)
       /\ AccountExists(req'.tok)
       /\ Inactive(req'.tok)
       => ~resp'.ran /\ resp'.status = 403]_vars

\* C5: PATCH /api/residents/:id/approval changes a resident only when the
\* request carries the token of an existing admin.
C5_ApprovalAdminOnly ==
    [][req'.route = "resident-approval" /\ residents' # residents =>
          /\ verifyToken(req'.tok)
          /\ req'.tok.type = "admin"
          /\ AccountExists(req'.tok)]_vars

\* a row the registration route wrote: the seed script alone writes status
\* "ACTIVE", and the approval route overwrites it
Registered(i) == residents[i].status # "ACTIVE"

C8_SeededLogin ==
    /\ resp.route = "seed"
    /\ resp.status = 0
    /\ residents[residentByEmail("john.smith@example.com")] = seedResident
    => /\ residentLoginStatus("john.smith@example.com", "resident123") = 200
       /\ providerLoginStatus("ahmad.plumber@example.com", "provider123") = 200

\* the admin-only routes of gate entries, employees and bill administration
GateEmployeeBillRoutes ==
    {"gate-list", "qr-scan", "gate-create", "gate-delete", "gate-stats",
     "employee-list", "employee-create", "employee-update", "employee-status",
     "employee-delete", "bill-generate", "bill-status", "bill-delete"}

\* the caller is not authenticated, or is of a type other than admin
NotAnAdmin(tok) == ~verifyToken(tok) \/ tok.type # "admin"

\* C6 as stated: a request of a caller who is unauthenticated or not an
\* admin to an admin-only route of gate entries, employees or bill
\* administration is rejected with 401 or 403 and leaves every table
\* unchanged.
C6_RejectedWith401Or403 ==
    [][req'.route \in GateEmployeeBillRoutes /\ NotAnAdmin(req'.tok) =>
          /\ ~resp'.ran
          /\ resp'.status \in {401, 403}
          /\ tables' = tables]_vars

\* C6, amended: such a request is rejected with 401, 403 or, when the
\* account the token names no longer exists, 404, and leaves every table
\* unchanged.
C6_RejectedUnchanged ==
    [][req'.route \in GateEmployeeBillRoutes /\ NotAnAdmin(req'.tok) =>
          /\ ~resp'.ran
          /\ resp'.status \in {401, 403, 404}
          /\ resp'.status = 404 => verifyToken(req'.tok) /\ ~AccountExists(req'.tok)
          /\ tables' = tables]_vars

\* The resident who logged in and was deleted since asks for a bill run
C6_Witness ==
    /\ req.route = "bill-generate"
    /\ req.tok = Jwt("resident", 1)
    /\ ~resp.ran
    /\ resp.status = 404

\* a stored password is null or a bcrypt hash
Hashed(password) == password = NullPassword \/ password.alg = "bcrypt"

\* C9: every password stored for an admin, a resident or a service provider
\* is null or a bcrypt hash, never the plaintext, so a service provider who
\* is ACTIVE logs in with the password the hash was made of.
C9_PasswordsHashed ==
    /\ \A i \in DOMAIN admins : Hashed(admins[i].password)
    /\ \A i \in DOMAIN residents : Hashed(residents[i].password)
    /\ \A i \in DOMAIN providers :
          /\ Hashed(providers[i].password)
          /\ providers[i].status = "ACTIVE" =>
                providerLoginStatus(providers[i].email, providers[i].password.of) = 200

\* no two residents with one email or one apartment
UniqueResidents ==
    \A i, j \in DOMAIN residents :
        i # j => /\ residents[i].email # residents[j].email
                 /\ residents[i].apartment # residents[j].apartment

\* C10: no two residents share an email or an apartment, and a step of a
\* registration that finds its email or apartment taken, at the existence
\* check or at the write, answers 400 and creates no resident, whatever
\* other registrations ran in between.
C10_UniqueUnderRaces ==
    [][/\ UniqueResidents'
       /\ req'.route = "resident-register" /\ residentTaken(regs'[req'.id].body) =>
             /\ resp'.status = 400
             /\ residents' = residents]_vars

\* Two registrations of one apartment both passed the existence check; the
\* first wrote its resident and the second was answered 400
C10_Witness ==
    /\ \E k \in DOMAIN regs : regs[k].status = 201
    /\ \E k \in DOMAIN regs :
          /\ k = req.id
          /\ regs[k].status = 400
          /\ \E i \in DOMAIN residents : residents[i].apartment = regs[k].body.apartment
    /\ resp.status = 400
    /\ Cardinality(DOMAIN residents) = 1
    /\ \A k \in DOMAIN regs : regs[k].body.shape = "valid"
    /\ \A k \in DOMAIN regs : regs[k].body.email # regs[3 - k].body.email

----------------------------------------------------------------------------
(* Whose bills and guests a caller is given *)

OwnRoutes == {"bill-list", "bill-get", "guest-list", "guest-get"}

\* C11: a caller who is not an admin is never given, by the list or the
\* by-id route of bills or of guests, a bill or a guest of a resident other
\* than the caller, whether the caller is a resident, a service provider or
\* an employee.
C11_OwnRecordsOnly ==
    resp.route \in OwnRoutes /\ req.tok.type # "admin" =>
        resp.owners \subseteq (IF req.tok.type = "resident" THEN {req.tok.id} ELSE {})

\* C12: mark-paid sets the bill's status to PAID and its paidDate only for
\* an admin; for the resident who owns the bill it answers 200 with the
\* payment-notification message and leaves the bill as it is; a resident
\* naming another resident's bill gets 403, and the admin or the owner
\* naming a bill that is PAID already gets 400, the bills unchanged.
C12_MarkPaid ==
    [][req'.route = "bill-mark-paid" /\ resp'.ran /\ req'.id \in DOMAIN bills =>
          LET id == req'.id
              tok == req'.tok
              owner == tok.type = "resident" /\ bills[id].residentId = tok.id
          IN /\ bills' # bills =>
                   /\ tok.type = "admin"
                   /\ bills' = [bills EXCEPT ![id].status = "PAID",
                                             ![id].paidDate = SomeDate]
             /\ tok.type = "admin" /\ bills[id].status # "PAID" =>
                   /\ resp'.status = 200
                   /\ bills'[id].status = "PAID"
                   /\ bills'[id].paidDate = SomeDate
             /\ owner /\ bills[id].status # "PAID" =>
                   /\ resp'.status = 200
                   /\ resp'.value = "Payment notification sent to admin"
                   /\ bills' = bills
             /\ tok.type = "resident" /\ ~owner =>
                   resp'.status = 403 /\ bills' = bills
             /\ (tok.type = "admin" \/ owner) /\ bills[id].status = "PAID" =>
                   resp'.status = 400 /\ bills' = bills]_vars

\* The resident of B-205 has notified the payment of her bill, which is
\* still PENDING
C12_Witness ==
    /\ req.route = "bill-mark-paid"
    /\ req.tok = Jwt("resident", 2)
    /\ resp.status = 200
    /\ resp.value = "Payment notification sent to admin"
    /\ bills[req.id].residentId = 2
    /\ bills[req.id].status = "PENDING"
    /\ bills[req.id].paidDate = NoDate

----------------------------------------------------------------------------
(* The validity window of a guest code *)

\* the instant is before validFrom or after validUntil
Expired(qr, now) == DateLt(now, qr.validFrom) \/ DateLt(qr.validUntil, now)

\* the instant is within [validFrom, validUntil]
Within(qr, now) ==
    /\ qr.validFrom # DateNaN /\ qr.validUntil # DateNaN
    /\ qr.validFrom <= now /\ now <= qr.validUntil

\* C13: a scan by the admin of a guest code, carrying the guest's name and
\* the host's apartment, at an instant before validFrom or after validUntil
\* is answered 400 and creates no gate entry; at an instant within
\* [validFrom, validUntil] it goes on to the create, is answered 201 and
\* appends one entry of the guest.
C13_GuestWindow ==
    [][req'.route = "qr-scan" /\ req'.id \in DOMAIN calls' =>
          LET c == calls'[req'.id]
          IN /\ c.qr.type = "guest_entry"
             /\ authWithRole(c.tok, requireAdmin) = 0
             /\ c.qr.guestName # UNDEF /\ c.qr.hostApartment # UNDEF
             => /\ Expired(c.qr, c.now) =>
                      /\ c.pc = "done"
                      /\ c.status = 400
                      /\ resp'.status = 400
                      /\ gateEntries' = gateEntries
                /\ Within(c.qr, c.now) =>
                      \/ c.pc = "found" /\ gateEntries' = gateEntries
                      \/ /\ c.pc = "done"
                         /\ c.status = 201
                         /\ resp'.status = 201
                         /\ Len(gateEntries') = Len(gateEntries) + 1
                         /\ SubSeq(gateEntries', 1, Len(gateEntries)) = gateEntries
                         /\ gateEntries'[Len(gateEntries')].entryType = "Guest"
                         /\ gateEntries'[Len(gateEntries')].person = c.qr.guestName]_vars

\* A guest scanned at the last instant of the window has been let in
C13_Witness ==
    /\ 1 \in DOMAIN calls
    /\ calls[1].qr.type = "guest_entry"
    /\ calls[1].qr.validFrom # DateNaN
    /\ calls[1].now = calls[1].qr.validUntil
    /\ calls[1].qr.validFrom < calls[1].now
    /\ calls[1].pc = "done"
    /\ calls[1].status = 201
    /\ resp.status = 201
    /\ Len(gateEntries) = 1
    /\ gateEntries[1].entryType = "Guest"

----------------------------------------------------------------------------
(* The records of a resident who is deleted *)

\* C14: whatever was created and deleted, the residentId of every bill,
\* guest and user complaint is the id of a resident in the table, and a
\* gate entry names a resident in the table or none.
C14_ResidentIdsExist ==
    /\ \A i \in DOMAIN bills : bills[i].residentId \in DOMAIN residents
    /\ \A i \in DOMAIN guests : guests[i].residentId \in DOMAIN residents
    /\ \A i \in DOMAIN userComplaints : userComplaints[i].residentId \in DOMAIN residents
    /\ \A n \in 1..Len(gateEntries) :
          gateEntries[n].residentId \in DOMAIN residents \cup {NoId}

----------------------------------------------------------------------------
(* Cross-origin requests *)

\* C15: a request from an origin that is not one of ALLOWED_ORIGINS is not
\* granted CORS access: the response allows neither that origin nor every
\* origin.
C15_CorsAllowedOnly ==
    resp.route = "health" /\ req.origin \notin ALLOWED_ORIGINS \cup {"none"} =>
        resp.value \notin {"*", req.origin}

----------------------------------------------------------------------------
(* The profile of a resident *)

\* the email or the apartment of a body is that of another resident
Duplicate(id, body) ==
    \E i \in DOMAIN residents \ {id} :
        \/ body.email # UNDEF /\ residents[i].email = body.email
        \/ body.apartment # UNDEF /\ residents[i].apartment = body.apartment

\* C16: PATCH /api/residents/:id by a logged-in resident: on another
\* resident's id it is answered 403 and changes nothing; on the resident's
\* own id, with a body whose email or apartment another resident uses, it is
\* answered 400 and changes nothing; with any other body the schema accepts
\* it is answered 200 and the row holds the email and apartment of the body.
C16_ResidentUpdate ==
    [][/\ req'.route = "resident-update"
       /\ req'.tok.type = "resident"
       /\ authenticateAndVerify(req'.tok) = 0
       => LET id == req'.id
              body == req'.body
          IN /\ req'.tok.id # id => resp'.status = 403 /\ residents' = residents
             /\ req'.tok.id = id /\ body.shape = "valid" /\ Duplicate(id, body) =>
                   resp'.status = 400 /\ residents' = residents
             /\ req'.tok.id = id /\ body.shape = "valid" /\ ~Duplicate(id, body) =>
                   /\ resp'.status = 200
                   /\ body.email # UNDEF => residents'[id].email = body.email
                   /\ body.apartment # UNDEF =>
                         residents'[id].apartment = body.apartment]_vars

----------------------------------------------------------------------------
(* Scans of one person running side by side *)

\* C17: whatever the interleaving of the lookups and the creates of scans
\* running side by side, no two entries of one key that follow one another
\* in the log have the same type.
C17_AlternatesUnderRaces ==
    \A i, j \in 1..Len(gateEntries) :
        /\ i < j
        /\ KeyOf(gateEntries[i]) = KeyOf(gateEntries[j])
        /\ \A n \in (i + 1)..(j - 1) : KeyOf(gateEntries[n]) # KeyOf(gateEntries[i])
        => gateEntries[i].type # gateEntries[j].type

----------------------------------------------------------------------------
(* One bill per resident, month and year *)

\* no two bills of one resident, month and year
OneBillEach ==
    \A i, j \in DOMAIN bills :
        /\ bills[i].residentId = bills[j].residentId
        /\ bills[i].month = bills[j].month
        /\ bills[i].year = bills[j].year
        => i = j

\* a resident has a bill of the month and year of a body
HasBill(i, body) ==
    \E b \in DOMAIN bills :
        /\ bills[b].residentId = i
        /\ bills[b].month = body.month
        /\ bills[b].year = body.year

\* C18: with bill runs one at a time there is at most one bill per
\* resident, month and year; a run creates one PENDING bill for each
\* selected resident who has none of that month and year, skips the others,
\* and is answered 400, creating nothing, when every selected resident has
\* one.
C18_OneBillPerMonth ==
    [][/\ OneBillEach'
       /\ req'.route = "bill-generate" /\ resp'.ran /\ req'.body.shape = "valid" =>
             LET body == req'.body
                 created == DOMAIN bills' \ DOMAIN bills
             IN /\ \A b \in DOMAIN bills : b \in DOMAIN bills' /\ bills'[b] = bills[b]
                /\ {bills'[b].residentId : b \in created} =
                      {i \in billed(body) : ~HasBill(i, body)}
                /\ \A b \in created :
                      /\ bills'[b].month = body.month
                      /\ bills'[b].year = body.year
                      /\ bills'[b].status = "PENDING"
                /\ (\A i \in billed(body) : HasBill(i, body)) =>
                      resp'.status = 400 /\ bills' = bills
                /\ created # {} => resp'.status = 201]_vars

\* A run for everybody has skipped john.smith, who had his February bill, and
\* billed the other resident
C18_Witness ==
    /\ req.route = "bill-generate"
    /\ req.body.residentIds = {}
    /\ req.body.month = "FEBRUARY"
    /\ resp.status = 201
    /\ resp.owners = {2}
    /\ \E b \in DOMAIN bills : bills[b].residentId = 1 /\ bills[b].month = "FEBRUARY"
    /\ OneBillEach

\* C19: at most one bill per resident, month and year, also when bill runs
\* of one month, year and residents go side by side, whatever the
\* interleaving of their lookups and creates.
C19_OneBillUnderRaces ==
    \A i \in DOMAIN residents : \A mo \in {"JANUARY", "FEBRUARY"} :
        Cardinality({b \in DOMAIN bills :
                        /\ bills[b].residentId = i
                        /\ bills[b].month = mo
                        /\ bills[b].year = 2024}) <= 1

\* The number of the existing employee with the largest employeeId
LargestNumber == Max({parseInt(employees[i].employeeId) : i \in DOMAIN employees})

\* C20: a creation by the admin with a valid body and an unused email, run
\* alone, is answered 201 and adds one employee, whose employeeId is EMP and
\* one more than the number of the largest existing employeeId (EMP001 when
\* there is none), padded to three digits, and is the employeeId of no
\* existing employee, also beyond EMP999.
C20_EmployeeIdNeverCollides ==
    [][(/\ req'.route = "employee-create"
        /\ authWithRole(req'.tok, requireAdmin) = 0
        /\ req'.body.shape = "valid"
        /\ \A i \in DOMAIN employees : employees[i].email # req'.body.email)
       => /\ resp'.status = 201
          /\ \E new \in DOMAIN employees' \ DOMAIN employees :
                /\ DOMAIN employees' = DOMAIN employees \cup {new}
                /\ employees'[new].employeeId =
                      IF employees = Empty THEN <<0, 0, 1>>
                      ELSE padStart(toString(LargestNumber + 1), 3)
                /\ \A i \in DOMAIN employees :
                      employees[i].employeeId # employees'[new].employeeId]_vars

\* Codes the handler stops before its switch finds a case: qrData missing,
\* qrData that is no JSON, and an object whose type is none of the six
Unreadable(qr) ==
    \/ qr.raw \in {"missing", "text"}
    \/ qr.raw = "json" /\ qr.type \notin QrTypes

UnreadableCodes == {qr \in QrCodes : Unreadable(qr)}

\* C21: a QR scan by the admin that is accepted (201) appends exactly one
\* gate entry, whose gate is Main Gate and whose method is QR Code, and
\* leaves the entries before it as they were; every other scan leaves the
\* log unchanged; a scan whose qrData is missing, is not valid JSON or
\* carries an unknown type is answered 400.
C21_ScanCreatesOne ==
    [][(req'.route = "qr-scan" /\ resp'.ran) =>
          /\ IF resp'.status = 201
             THEN /\ Len(gateEntries') = Len(gateEntries) + 1
                  /\ SubSeq(gateEntries', 1, Len(gateEntries)) = gateEntries
                  /\ gateEntries'[Len(gateEntries')].gate = "Main Gate"
                  /\ gateEntries'[Len(gateEntries')].method = "QR Code"
             ELSE gateEntries' = gateEntries
          /\ \A qr \in UnreadableCodes :
                QrScan(req'.tok, qr, 1) => resp'.status = 400]_vars

\* A code of unknown type was refused with 400 after a scan had been
\* accepted: the log still holds that one entry
C21_Witness ==
    /\ resp.route = "qr-scan"
    /\ resp.status = 400
    /\ resp.value = "Invalid QR code type"
    /\ Len(gateEntries) = 1
    /\ gateEntries[1].method = "QR Code"

\* A request to POST /api/guests that passed the middleware
GuestPosted == req'.route = "guest-create" /\ resp'.ran

\* The resident the guest of the request is for
Target == targetResidentId(UserOf(req'.tok), req'.body)

\* C22 as written: a guest created by a resident belongs to that resident
\* whatever residentId the body carries; an admin who gives no residentId
\* gets 400 and no guest; a visit date in the past gets 400 and no guest.
\* The clock of these requests reads MaxTime.
C22_GuestChecks ==
    [][GuestPosted =>
          /\ (req'.tok.type = "resident" /\ guests' # guests) =>
                \E g \in DOMAIN guests' \ DOMAIN guests :
                   /\ DOMAIN guests' = DOMAIN guests \cup {g}
                   /\ guests'[g].residentId = req'.tok.id
          /\ (req'.tok.type = "admin" /\ req'.body.residentId = NoId) =>
                resp'.status = 400 /\ guests' = guests
          /\ DateLt(req'.body.visitDate, MaxTime) =>
                resp'.status = 400 /\ guests' = guests]_vars

\* C22, amended: the same, and a visit date in the past gets no guest
\* created and is answered 400 unless the admin names a resident that does
\* not exist, which is answered 404 before the date is looked at.
C22_GuestChecksAmended ==
    [][GuestPosted =>
          /\ (req'.tok.type = "resident" /\ guests' # guests) =>
                \E g \in DOMAIN guests' \ DOMAIN guests :
                   /\ DOMAIN guests' = DOMAIN guests \cup {g}
                   /\ guests'[g].residentId = req'.tok.id
          /\ (req'.tok.type = "admin" /\ req'.body.residentId = NoId) =>
                resp'.status = 400 /\ guests' = guests
          /\ DateLt(req'.body.visitDate, MaxTime) =>
                /\ guests' = guests
                /\ resp'.status =
                      IF /\ req'.body.shape = "valid"
                         /\ req'.body.residentId # NoId \/ req'.tok.type = "resident"
                         /\ Target # BadId
                         /\ Target \notin DOMAIN residents
                      THEN 404 ELSE 400]_vars

\* Resident 1 registered a guest with a body that names resident 2: the
\* guest is resident 1's
C22_Witness ==
    /\ req.route = "guest-create"
    /\ req.tok = Jwt("resident", 1)
    /\ req.body.residentId = 2
    /\ resp.status = 201
    /\ 2 \in DOMAIN guests
    /\ guests[2].residentId = 1

\* C23: a resident who asks GET /api/maintenance-bills/resident/:residentId
\* or GET /api/guests/resident/:residentId for the own id gets 200 and
\* records of that resident only; a resident who asks for another
\* resident's id gets 403.
C23_RecordsOfResident ==
    (/\ req.route \in {"bills-of-resident", "guests-of-resident"}
     /\ req.tok.type = "resident"
     /\ resp.ran)
    => IF req.tok.id = req.id
       THEN resp.status = 200 /\ resp.owners \subseteq {req.id}
       ELSE resp.status = 403

\* C24: a response to a caller who is not an admin carries no password
\* property of a resident or a service provider: not after a login or a
\* registration, not after reading or updating a profile.
C24_NoPasswordToOthers ==
    authWithRole(req.tok, requireAdmin) # 0 => resp.password = NoPassword

\* The resident of the seed read the own profile, whose row holds a
\* password, and the response holds none
C24_Witness ==
    /\ req.route = "resident-get"
    /\ req.tok = Jwt("resident", 1)
    /\ req.id = 1
    /\ resp.status = 200
    /\ residents[1].password = hashPassword("resident123")
    /\ resp.password = NoPassword

\* C25: the list of residents and the list of complaints, when answered
\* with a list, report a page of at least 1, a limit from 1 to 100 and
\* pages = ceil(total / limit); a request whose page or limit is outside
\* these ranges is answered with an error.
C25_Pagination ==
    (req.route \in {"resident-list", "complaint-list"} /\ resp.ran) =>
        /\ resp.status = 200 =>
              /\ resp.pagination.page >= 1
              /\ resp.pagination.limit >= 1
              /\ resp.pagination.limit <= LimitOfSchema
              /\ resp.pagination.pages =
                    (resp.pagination.total + resp.pagination.limit - 1)
                        \div resp.pagination.limit
        /\ ~PaginationSchema(req.body) => resp.status >= 400

\* status and approvalStatus of a resident row go together
Paired(row) ==
    \/ row.status = "Active" /\ row.approvalStatus = "APPROVED"
    \/ row.status = "Pending" /\ row.approvalStatus = "PENDING"
    \/ row.status = "Rejected" /\ row.approvalStatus = "REJECTED"

\* C26: after every step, every resident who registered (any but resident
\* 1, who is of the seed) has status Active with APPROVED, Pending with
\* PENDING or Rejected with REJECTED; an approval request does the same
\* whatever status its body carries; an approval request whose
\* approvalStatus is neither APPROVED nor REJECTED is answered 400 and
\* changes no resident.
C26_StatusFollowsApproval ==
    [][/\ \A i \in DOMAIN residents' \ {1} : Paired(residents'[i])
       /\ \A tok \in {NoToken} \cup tokens : \A id \in ResidentIds :
             \A approvalStatus \in ApprovalStatuses : \A status \in BodyStatuses :
                ResidentApproval(tok, id, approvalStatus, status) =>
                   /\ \A other \in BodyStatuses :
                         ResidentApproval(tok, id, approvalStatus, other)
                   /\ approvalStatus \notin {"APPROVED", "REJECTED"} =>
                         resp'.status = 400 /\ residents' = residents]_vars

\* The resident who registered was rejected by an approval request
C26_Witness ==
    /\ resp.route = "resident-approval"
    /\ resp.status = 200
    /\ req.id = 2
    /\ 2 \in DOMAIN residents
    /\ residents[2].status = "Rejected"
    /\ residents[2].approvalStatus = "REJECTED"

\* The account a token was issued for has been deleted or deactivated
Dead(tok) ==
    verifyToken(tok) /\ (IF AccountExists(tok) THEN Inactive(tok) ELSE TRUE)

\* C27: a request to /me, /refresh or the bill list that carries a token
\* whose account has since been deleted or deactivated is refused (a status
\* of 400 or more) and hands out no token.
C27_DeadTokensRefused ==
    (req.route \in {"me", "refresh", "bill-list"} /\ Dead(req.tok))
    => resp.status >= 400 /\ resp.token = NoToken

============================================================================
